---- MODULE Spec2Model ----
(***************************************************************************)
(* Verification model of the deformable-body core of OpenSurgSim:          *)
(*   - the per-tick pipeline of MassSpringRepresentation                    *)
(*     (beforeUpdate / update / afterUpdate / applyCorrection),            *)
(*   - the assembly of F, M, D, K with boundary conditions,                *)
(*   - the initialisation of a FEM element.                                *)
(* Doubles are modelled as integers extended with NaN and +/-Inf where     *)
(* finiteness matters (the pipeline) and as plain integers in the assembly.*)
(***************************************************************************)
EXTENDS Integers, Sequences, FiniteSets, TLC

VARIABLES
    m_isActive,        \* Representation::m_isActive
    numMasses,         \* getNumMasses(): m_masses.size()
    numSprings,        \* getNumSprings(): m_springs.size()
    m_numDof,          \* Representation::m_numDof
    m_odeSolver,       \* TRUE iff m_odeSolver != nullptr
    heap,              \* content of the state buffers the shared_ptrs point to
    m_initialState,    \* buffer each handle refers to
    m_previousState,
    m_currentState,
    m_newState,
    m_finalState,
    lastOp,            \* the last call made on the body and how it ended
    everBeforeUpdate,  \* TRUE once beforeUpdate has been called on the body
    nOps,              \* number of pipeline calls made so far (bounds the exploration)
    \* --- assembly of F, M, D, K ---
    m_massList,        \* m_masses: the mass of each node
    m_springList,      \* m_springs: the springs
    m_rayleighDamping, \* massCoefficient, stiffnessCoefficient
    m_isGravityEnabled,
    odeState,          \* the state handed to computeF, computeM, ...
    m_f, m_M, m_D, m_K,\* the results held by the representation
    asmCall,           \* the last compute call made
    \* --- a FEM element (tetrahedron) ---
    m_rho,             \* mass density
    m_E,               \* Young modulus
    m_nu,              \* Poisson ratio, in thousandths
    m_nodeIds,         \* the node ids of the element
    femNumNodes,       \* getNumNodes() of the state handed to initialize
    femCall,           \* the last call made on the element and how it ended
    femPositions,      \* getPositions() of the state handed to initialize
    m_x0,              \* rest positions of the four nodes, <<>> until cached
    m_restVolume,      \* rest volume, <<>> until cached
    shapeFunctions,    \* m_ai, m_bi, m_ci, m_di, <<>> until cached
    m_MLocal,          \* the element's 12x12 mass matrix m_M, <<>> until cached
    m_KLocal,          \* the element's 12x12 stiffness matrix m_K, <<>> until cached
    femWarning,        \* TRUE iff the last initialize logged a warning
    femReads,          \* node ids whose position the last call read from its state
    femOut,            \* what the last call on the element returned or wrote
    \* --- Math::clamp ---
    clampKind,         \* the numeric kind of the call: int, float or double
    clampValue,        \* *value
    clampMin, clampMax, clampEpsilon,
    clampDone,         \* TRUE once clamp has run on *value
    clampBefore        \* *value as it was when clamp was called

bodyVars == <<m_isActive, numMasses, numSprings, m_numDof, m_odeSolver, heap,
              m_initialState, m_previousState, m_currentState, m_newState,
              m_finalState, lastOp, everBeforeUpdate, nOps>>

asmVars == <<m_massList, m_springList, m_rayleighDamping, m_isGravityEnabled,
             odeState, m_f, m_M, m_D, m_K, asmCall>>

femCache == <<m_x0, m_restVolume, shapeFunctions, m_MLocal, m_KLocal>>

femVars == <<m_rho, m_E, m_nu, m_nodeIds, femNumNodes, femCall, femPositions,
             femCache, femWarning, femReads, femOut>>

mathVars == <<clampKind, clampValue, clampMin, clampMax, clampEpsilon, clampDone, clampBefore>>

\* --- OdeSolverRungeKutta4 on a MassPoint ---
VARIABLES
    odeSolverKind,
    m_mass,
    m_viscosity,
    odeDt,
    odeCurrentState,
    odeNewState,
    odeCall

odeVars == <<odeSolverKind, m_mass, m_viscosity, odeDt, odeCurrentState, odeNewState, odeCall>>

\* --- Framework/Component ---
VARIABLES
    m_didInit,
    m_didWakeUp,
    m_runtime,
    componentCalls

componentVars == <<m_didInit, m_didWakeUp, m_runtime, componentCalls>>

\* --- Collision/TriangleMeshTriangleMeshDcdContact ---
VARIABLES
    meshANumTriangles,
    meshBNumTriangles,
    loopI,
    loopJ,
    contactPc,
    contactRead,
    numContacts

contactVars == <<meshANumTriangles, meshBNumTriangles, loopI, loopJ, contactPc, contactRead, numContacts>>

\* --- Particles/ParticleSystemRepresentation ---
VARIABLES
    m_maxParticles,
    m_particles,
    particleCall,
    numParticleCalls

particleVars == <<m_maxParticles, m_particles, particleCall, numParticleCalls>>

\* --- Blocks/KeyboardTogglesGraphicsBehavior ---
VARIABLES
    m_registry,
    m_keyPressedLastUpdate,
    componentActive,
    keyInputs,
    numRegistered

keyboardVars == <<m_registry, m_keyPressedLastUpdate, componentActive, keyInputs, numRegistered>>

\* --- Devices/TrackIR/TrackIRScaffold ---
VARIABLES
    mutexOwner,
    clientPc,
    clientOp,
    isApiInitialized,
    activeDeviceList,
    m_thread,
    devicePc,
    numScaffoldCalls

scaffoldVars == <<mutexOwner, clientPc, clientOp, isApiInitialized, activeDeviceList, m_thread, devicePc, numScaffoldCalls>>

vars == <<bodyVars, asmVars, femVars, mathVars, odeVars, componentVars, contactVars, particleVars, keyboardVars, scaffoldVars>>

\* What a call on one object leaves alone: every other object
notBodyVars == <<asmVars, femVars, mathVars, odeVars, componentVars, contactVars, particleVars, keyboardVars, scaffoldVars>>
notAsmVars == <<bodyVars, femVars, mathVars, odeVars, componentVars, contactVars, particleVars, keyboardVars, scaffoldVars>>
notFemVars == <<bodyVars, asmVars, mathVars, odeVars, componentVars, contactVars, particleVars, keyboardVars, scaffoldVars>>
notMathVars == <<bodyVars, asmVars, femVars, odeVars, componentVars, contactVars, particleVars, keyboardVars, scaffoldVars>>
notOdeVars == <<bodyVars, asmVars, femVars, mathVars, componentVars, contactVars, particleVars, keyboardVars, scaffoldVars>>
notComponentVars == <<bodyVars, asmVars, femVars, mathVars, odeVars, contactVars, particleVars, keyboardVars, scaffoldVars>>
notContactVars == <<bodyVars, asmVars, femVars, mathVars, odeVars, componentVars, particleVars, keyboardVars, scaffoldVars>>
notParticleVars == <<bodyVars, asmVars, femVars, mathVars, odeVars, componentVars, contactVars, keyboardVars, scaffoldVars>>
notKeyboardVars == <<bodyVars, asmVars, femVars, mathVars, odeVars, componentVars, contactVars, particleVars, scaffoldVars>>
notScaffoldVars == <<bodyVars, asmVars, femVars, mathVars, odeVars, componentVars, contactVars, particleVars, keyboardVars>>

----------------------------------------------------------------------------
(* Bounds of the exploration *)

MaxNodes == 1
MaxMasses == 1
MaxSprings == 1
MaxOps == 4
MaxAbs == 2

----------------------------------------------------------------------------
(* Doubles: a finite value, NaN, +Inf or -Inf *)

Fin(n) == <<"fin", n>>
NaN == <<"nan", 0>>
PInf == <<"inf", 1>>
NInf == <<"inf", 0 - 1>>

IsFinite(x) == x[1] = "fin"

Sign(n) == IF n > 0 THEN 1 ELSE IF n < 0 THEN 0 - 1 ELSE 0

\* IEEE-754 addition
fadd(a, b) ==
    IF a[1] = "nan" \/ b[1] = "nan" THEN NaN
    ELSE IF a[1] = "inf" /\ b[1] = "inf" THEN (IF a[2] = b[2] THEN a ELSE NaN)
    ELSE IF a[1] = "inf" THEN a
    ELSE IF b[1] = "inf" THEN b
    ELSE Fin(a[2] + b[2])

\* IEEE-754 multiplication
fmul(a, b) ==
    IF a[1] = "nan" \/ b[1] = "nan" THEN NaN
    ELSE IF a[1] = "inf" \/ b[1] = "inf"
         THEN (IF Sign(a[2]) * Sign(b[2]) = 0 THEN NaN
               ELSE <<"inf", Sign(a[2]) * Sign(b[2])>>)
    ELSE Fin(a[2] * b[2])

VecAdd(x, y) == [k \in DOMAIN x |-> fadd(x[k], y[k])]
VecScale(x, s) == [k \in DOMAIN x |-> fmul(x[k], s)]
Fill(n, v) == [k \in 1..n |-> v]

\* SurgSim::Math::isValid(vector): every entry is finite
isValid(x) == \A k \in DOMAIN x : IsFinite(x[k])

InRange(x) == \A k \in DOMAIN x : IsFinite(x[k]) => (x[k][2] <= MaxAbs /\ x[k][2] >= 0 - MaxAbs)

----------------------------------------------------------------------------
(* State buffers *)

BufIds == {"bufInitial", "bufA", "bufB", "bufC", "bufFinal"}

MkState(p, v) == [positions |-> p, velocities |-> v]

\* m_numDofPerNode, set by the constructor
NumDofPerNode == 3

FinVals == {Fin(0), Fin(1)}

\* The rest states handed to setInitialState: n nodes, finite entries
RestStates(n) ==
    {MkState(Fill(NumDofPerNode * n, p), Fill(NumDofPerNode * n, v)) : p \in FinVals, v \in {Fin(0)}}

\* What the solver may write into the new state: any value, finite or not,
\* in one entry of the positions and of the velocities
SolveVals == {<<Fin(1), Fin(1)>>, <<NaN, Fin(0)>>, <<Fin(0), PInf>>}

\* OdeSolver::solve(dt, currentState, newState): the state written to newState
OdeSolver_solve(current, i, pv) ==
    MkState([current.positions EXCEPT ![i] = pv[1]],
            [current.velocities EXCEPT ![i] = pv[2]])

\* Corrections the constraint solver may hand to applyCorrection
DeltaVals == {Fin(1), NInf}
DeltaVelocities(n) ==
    IF n = 0 THEN {<<>>}
    ELSE {[Fill(n, Fin(0)) EXCEPT ![i] = d] : i \in {1, n}, d \in DeltaVals}
Dts == {Fin(1), Fin(2)}

\* The record of a call: its name, how it ended, whether the body was active
\* when it was made, and its arguments
CallRec(op, result, wasActive, args) ==
    [op |-> op, result |-> result, wasActive |-> wasActive, args |-> args]

NoArgs == <<>>

\* MassSpringRepresentation::isValidState
isValidState_PositionsOnly(state) == isValid(state.positions)
isValidState_VelocitiesOnly(state) == isValid(state.velocities)
isValidState(state) == isValid(state.positions) /\ isValid(state.velocities)

----------------------------------------------------------------------------
(* MassSpringRepresentation: construction and set-up *)

\* The body as constructed (active, no mass, no spring, no solver) and given
\* its initial state: setInitialState allocates the previous, current, new
\* and final states as copies of it and sets the number of dof.
InitBody ==
    \E n \in 0..MaxNodes : \E rest \in RestStates(n) :
        /\ m_isActive = TRUE
        /\ numMasses = 0
        /\ numSprings = 0
        /\ m_numDof = NumDofPerNode * n
        /\ m_odeSolver = FALSE
        /\ heap = [b \in BufIds |-> rest]
        /\ m_initialState = "bufInitial"
        /\ m_previousState = "bufA"
        /\ m_currentState = "bufB"
        /\ m_newState = "bufC"
        /\ m_finalState = "bufFinal"
        /\ lastOp = CallRec("setInitialState", "ok", TRUE, NoArgs)
        /\ everBeforeUpdate = FALSE
        /\ nOps = 0

handles == <<m_initialState, m_previousState, m_currentState, m_newState, m_finalState>>

addMass ==
    /\ UNCHANGED notBodyVars
    /\ numMasses < MaxMasses
    /\ numMasses' = numMasses + 1
    /\ lastOp' = CallRec("addMass", "ok", m_isActive, NoArgs)
    /\ UNCHANGED <<m_isActive, numSprings, m_numDof, m_odeSolver, heap, handles,
                   everBeforeUpdate, nOps>>

addSpring ==
    /\ UNCHANGED notBodyVars
    /\ numSprings < MaxSprings
    /\ numSprings' = numSprings + 1
    /\ lastOp' = CallRec("addSpring", "ok", m_isActive, NoArgs)
    /\ UNCHANGED <<m_isActive, numMasses, m_numDof, m_odeSolver, heap, handles,
                   everBeforeUpdate, nOps>>

\* Representation::setIsActive, called by the application
setIsActive(b) ==
    /\ UNCHANGED notBodyVars
    /\ nOps < MaxOps
    /\ nOps' = nOps + 1
    /\ m_isActive' = b
    /\ lastOp' = CallRec("setIsActive", "ok", m_isActive, <<b>>)
    /\ UNCHANGED <<numMasses, numSprings, m_numDof, m_odeSolver, heap, handles,
                   everBeforeUpdate>>

----------------------------------------------------------------------------
(* MassSpringRepresentation: the per-tick pipeline *)

\* How beforeUpdate ends: "noop" when inactive, else the first of its
\* assertions that fails, else "ok"
beforeUpdateResult_NoSpringCheck(active, nMasses, nSprings, nDof) ==
    IF ~active THEN "noop"
    ELSE IF NumDofPerNode * nMasses # nDof THEN "assertDofMismatch"
    ELSE IF nMasses = 0 THEN "assertNoMass"
    ELSE IF nDof = 0 THEN "assertNoState"
    ELSE "ok"
beforeUpdateResult_AssertFirst(active, nMasses, nSprings, nDof) ==
    IF NumDofPerNode * nMasses # nDof THEN "assertDofMismatch"
    ELSE IF nMasses = 0 THEN "assertNoMass"
    ELSE IF nSprings = 0 THEN "assertNoSpring"
    ELSE IF nDof = 0 THEN "assertNoState"
    ELSE IF ~active THEN "noop"
    ELSE "ok"
beforeUpdateResult(active, nMasses, nSprings, nDof) ==
    IF ~active THEN "noop"
    ELSE IF NumDofPerNode * nMasses # nDof THEN "assertDofMismatch"
    ELSE IF nMasses = 0 THEN "assertNoMass"
    ELSE IF nSprings = 0 THEN "assertNoSpring"
    ELSE IF nDof = 0 THEN "assertNoState"
    ELSE "ok"

\* DeformableRepresentation::beforeUpdate: sets the ode solver up when needed
DeformableRepresentation_beforeUpdate == m_odeSolver' = TRUE

beforeUpdate ==
    /\ UNCHANGED notBodyVars
    /\ nOps < MaxOps
    /\ nOps' = nOps + 1
    /\ everBeforeUpdate' = TRUE
    /\ UNCHANGED <<m_isActive, numMasses, numSprings, m_numDof, heap, handles>>
    /\ LET r == beforeUpdateResult(m_isActive, numMasses, numSprings, m_numDof) IN
       /\ lastOp' = CallRec("beforeUpdate", r, m_isActive, NoArgs)
       /\ IF r = "ok" THEN DeformableRepresentation_beforeUpdate
                      ELSE UNCHANGED m_odeSolver

\* How update ends: "noop" when inactive, else the first of its assertions
\* that fails, else "ok"
updateResult_NoSolverAssert(active, solverSet, initialStateSet) ==
    IF ~active THEN "noop"
    ELSE IF ~initialStateSet THEN "assertNoState"
    ELSE "ok"
updateResult(active, solverSet, initialStateSet) ==
    IF ~active THEN "noop"
    ELSE IF ~solverSet THEN "assertNoSolver"
    ELSE IF ~initialStateSet THEN "assertNoState"
    ELSE "ok"

\* The two swaps of update: <<previous, current, new>> afterwards
swapStates_OneSwap(previous, current, new) == <<current, previous, new>>
swapStates_Assigns(previous, current, new) == <<current, new, new>>
swapStates(previous, current, new) ==
    LET \* m_currentState.swap(m_previousState)
        p1 == current
        c1 == previous
        \* m_currentState.swap(m_newState)
        c2 == new
        n2 == c1
    IN <<p1, c2, n2>>

update ==
    /\ UNCHANGED notBodyVars
    /\ nOps < MaxOps
    /\ nOps' = nOps + 1
    /\ UNCHANGED <<m_isActive, numMasses, numSprings, m_numDof, m_odeSolver,
                   m_initialState, m_finalState, everBeforeUpdate>>
    /\ LET r == updateResult(m_isActive, m_odeSolver, m_initialState \in BufIds) IN
       IF r # "ok"
       THEN /\ lastOp' = CallRec("update", r, m_isActive, NoArgs)
            /\ UNCHANGED <<heap, m_previousState, m_currentState, m_newState>>
       ELSE \E i \in {1, m_numDof} : \E pv \in SolveVals :
            LET s == swapStates(m_previousState, m_currentState, m_newState) IN
            /\ heap' = [heap EXCEPT ![m_newState] = OdeSolver_solve(heap[m_currentState], i, pv)]
            /\ m_previousState' = s[1]
            /\ m_currentState' = s[2]
            /\ m_newState' = s[3]
            /\ lastOp' = CallRec("update", r, m_isActive, <<i, pv>>)

\* DeformableRepresentation::resetState: back to the rest state
resetState(h) ==
    [h EXCEPT ![m_currentState] = h[m_initialState],
              ![m_previousState] = h[m_initialState],
              ![m_finalState] = h[m_initialState]]

\* The test that guards deactivateAndReset in afterUpdate and applyCorrection
mustDeactivate_Inverted(state) == isValidState(state)
mustDeactivate(state) == ~isValidState(state)

\* deactivateAndReset on the buffers h: resetState() then setIsActive(false)
deactivateAndReset(h) ==
    /\ heap' = resetState(h)
    /\ m_isActive' = FALSE

afterUpdate ==
    /\ UNCHANGED notBodyVars
    /\ nOps < MaxOps
    /\ nOps' = nOps + 1
    /\ lastOp' = CallRec("afterUpdate", IF m_isActive THEN "ok" ELSE "noop",
                         m_isActive, NoArgs)
    /\ UNCHANGED <<numMasses, numSprings, m_numDof, m_odeSolver, handles, everBeforeUpdate>>
    /\ IF ~m_isActive
       THEN UNCHANGED <<heap, m_isActive>>
       ELSE IF mustDeactivate(heap[m_currentState])
       THEN deactivateAndReset(heap)
       ELSE /\ heap' = [heap EXCEPT ![m_finalState] = heap[m_currentState]]
            /\ UNCHANGED m_isActive

\* The current state after the correction is added
correctedState_VelocityOnly(state, dt, deltaVelocity) ==
    MkState(state.positions, VecAdd(state.velocities, deltaVelocity))
correctedState(state, dt, deltaVelocity) ==
    MkState(VecAdd(state.positions, VecScale(deltaVelocity, dt)),
            VecAdd(state.velocities, deltaVelocity))

applyCorrection ==
    /\ UNCHANGED notBodyVars
    /\ nOps < MaxOps
    /\ \E dt \in Dts : \E deltaVelocity \in DeltaVelocities(m_numDof) :
        LET c == correctedState(heap[m_currentState], dt, deltaVelocity)
            h == [heap EXCEPT ![m_currentState] = c]
        IN
        /\ m_isActive => (InRange(c.positions) /\ InRange(c.velocities))
        /\ nOps' = nOps + 1
        /\ lastOp' = CallRec("applyCorrection", IF m_isActive THEN "ok" ELSE "noop",
                             m_isActive, <<dt, deltaVelocity>>)
        /\ UNCHANGED <<numMasses, numSprings, m_numDof, m_odeSolver, handles, everBeforeUpdate>>
        /\ IF ~m_isActive
           THEN UNCHANGED <<heap, m_isActive>>
           ELSE IF mustDeactivate(c)
           THEN deactivateAndReset(h)
           ELSE /\ heap' = h
                /\ UNCHANGED m_isActive

\* The variables of the assembly while the pipeline is explored
AsmIdle ==
    /\ m_massList = <<>>
    /\ m_springList = <<>>
    /\ m_rayleighDamping = [massCoefficient |-> 0, stiffnessCoefficient |-> 0]
    /\ m_isGravityEnabled = TRUE
    /\ odeState = <<>>
    /\ m_f = <<>>
    /\ m_M = <<>>
    /\ m_D = <<>>
    /\ m_K = <<>>
    /\ asmCall = "none"

NextBody ==
    \/ addMass
    \/ addSpring
    \/ \E b \in BOOLEAN : setIsActive(b)
    \/ beforeUpdate
    \/ update
    \/ afterUpdate
    \/ applyCorrection

\* The variables of the FEM element while something else is explored
FemIdle ==
    /\ m_rho = 0
    /\ m_E = 0
    /\ m_nu = 0
    /\ m_nodeIds = <<>>
    /\ femNumNodes = 0
    /\ femCall = [op |-> "none", result |-> "ok"]
    /\ femPositions = <<>>
    /\ m_x0 = <<>>
    /\ m_restVolume = <<>>
    /\ shapeFunctions = <<>>
    /\ m_MLocal = <<>>
    /\ m_KLocal = <<>>
    /\ femWarning = FALSE
    /\ femReads = {}
    /\ femOut = <<>>

\* The variables of clamp while something else is explored
MathIdle ==
    /\ clampKind = "int"
    /\ clampValue = 0
    /\ clampMin = 0
    /\ clampMax = 0
    /\ clampEpsilon = 0
    /\ clampDone = FALSE
    /\ clampBefore = 0

\* The variables of OdeSolverRungeKutta4 on a MassPoint while something else is explored
OdeIdle ==
    /\ odeSolverKind = "OdeSolverRungeKutta4"
    /\ m_mass = 0
    /\ m_viscosity = 0
    /\ odeDt = 0
    /\ odeCurrentState = <<>>
    /\ odeNewState = <<>>
    /\ odeCall = "none"

\* The variables of Framework/Component while something else is explored
ComponentIdle ==
    /\ m_didInit = FALSE
    /\ m_didWakeUp = FALSE
    /\ m_runtime = "nullptr"
    /\ componentCalls = <<>>

\* The variables of Collision/TriangleMeshTriangleMeshDcdContact while something else is explored
ContactIdle ==
    /\ meshANumTriangles = 0
    /\ meshBNumTriangles = 0
    /\ loopI = 0
    /\ loopJ = 0
    /\ contactPc = "idle"
    /\ contactRead = <<>>
    /\ numContacts = 0

\* The variables of Particles/ParticleSystemRepresentation while something else is explored
ParticleIdle ==
    /\ m_maxParticles = 0
    /\ m_particles = <<>>
    /\ particleCall = <<>>
    /\ numParticleCalls = 0

\* The variables of Blocks/KeyboardTogglesGraphicsBehavior while something else is explored
KeyboardIdle ==
    /\ m_registry = <<>>
    /\ m_keyPressedLastUpdate = FALSE
    /\ componentActive = <<>>
    /\ keyInputs = <<>>
    /\ numRegistered = 0

\* The variables of Devices/TrackIR/TrackIRScaffold while something else is explored
ScaffoldIdle ==
    /\ mutexOwner = <<>>
    /\ clientPc = <<>>
    /\ clientOp = <<>>
    /\ isApiInitialized = FALSE
    /\ activeDeviceList = {}
    /\ m_thread = "none"
    /\ devicePc = "none"
    /\ numScaffoldCalls = 0

\* A constructed body; nothing assembled, no FEM element
Init == InitBody /\ AsmIdle /\ FemIdle /\ MathIdle /\ OdeIdle /\ ComponentIdle /\ ContactIdle /\ ParticleIdle /\ KeyboardIdle /\ ScaffoldIdle

Spec == Init /\ [][NextBody]_vars

----------------------------------------------------------------------------
(* Assembly of F, M, D and K.  Vectors are functions on 0..n-1, matrices    *)
(* functions on pairs of indices; doubles are integers here.               *)

MaxAsmNodes == 2
MaxAsmSprings == 1

\* The penalty written on the diagonal for a boundary condition
BoundaryPenalty == 1000000000

\* Representation::getGravity(), in whole units
Gravity == <<0, 0 - 10, 0>>

Dofs(n) == 0..(n - 1)
ZeroVector(n) == [i \in Dofs(n) |-> 0]
ZeroMatrix(n) == [ij \in Dofs(n) \X Dofs(n) |-> 0]

getNumDofOf(state) == NumDofPerNode * state.numNodes
getMass(massId) == m_massList[massId + 1]

\* node and axis of a dof index
NodeOf(i) == i \div NumDofPerNode
AxisOf(i) == i % NumDofPerNode

\* M * x for a matrix on n dofs
RECURSIVE RowDot(_, _, _, _)
RowDot(A, x, i, j) ==
    IF j < 0 THEN 0 ELSE A[<<i, j>>] * x[j] + RowDot(A, x, i, j - 1)
MatVec(A, x, n) == [i \in Dofs(n) |-> RowDot(A, x, i, n - 1)]

(* A spring between two nodes, as an element: its local stiffness and      *)
(* damping matrices are stiffness * B and damping * B with                 *)
(* B = [I -I; -I I] on the dofs of its two nodes, its rest positions x0.   *)

SpringDofs(spring) ==
    {NumDofPerNode * spring.nodeA + a : a \in 0..2} \cup
    {NumDofPerNode * spring.nodeB + a : a \in 0..2}

SpringPattern(spring, i, j) ==
    IF i \notin SpringDofs(spring) \/ j \notin SpringDofs(spring) THEN 0
    ELSE IF i = j THEN 1
    ELSE IF AxisOf(i) = AxisOf(j) THEN 0 - 1
    ELSE 0

\* sum over j of B[i, j] * x[j]
SpringPatternDot(spring, x, i) ==
    LET other == IF NodeOf(i) = spring.nodeA
                 THEN NumDofPerNode * spring.nodeB + AxisOf(i)
                 ELSE NumDofPerNode * spring.nodeA + AxisOf(i)
    IN IF i \in SpringDofs(spring) THEN x[i] - x[other] ELSE 0

\* Spring::addStiffness(state, K, scale)
Spring_addStiffness(spring, state, K, scale) ==
    [ij \in DOMAIN K |-> K[ij] + scale * spring.stiffness * SpringPattern(spring, ij[1], ij[2])]

\* Spring::addDamping(state, D, scale)
Spring_addDamping(spring, state, D, scale) ==
    [ij \in DOMAIN D |-> D[ij] + scale * spring.damping * SpringPattern(spring, ij[1], ij[2])]

\* Spring::addForce(state, F, scale): F += scale * (-K_local * (x - x0))
Spring_addForce(spring, state, F, scale) ==
    LET u == [i \in DOMAIN F |-> state.positions[i] - spring.x0[i]] IN
    [i \in DOMAIN F |-> F[i] - scale * spring.stiffness * SpringPatternDot(spring, u, i)]

\* Spring::addMatVec(state, alphaD, alphaK, x, F):
\* F += alphaD * D_local * x + alphaK * K_local * x
Spring_addMatVec(spring, state, alphaD, alphaK, x, F) ==
    IF alphaD = 0 /\ alphaK = 0 THEN F
    ELSE [i \in DOMAIN F |->
            F[i] + (alphaD * spring.damping + alphaK * spring.stiffness)
                       * SpringPatternDot(spring, x, i)]

\* addSpringsForce: every spring adds its force
RECURSIVE addSpringsForceFrom(_, _, _, _)
addSpringsForceFrom(k, force, state, scale) ==
    IF k > Len(m_springList) THEN force
    ELSE addSpringsForceFrom(k + 1, Spring_addForce(m_springList[k], state, force, scale),
                             state, scale)
addSpringsForce(force, state, scale) == addSpringsForceFrom(1, force, state, scale)

\* every spring adds scale * its stiffness matrix
RECURSIVE addSpringsStiffnessFrom(_, _, _, _)
addSpringsStiffnessFrom(k, K, state, scale) ==
    IF k > Len(m_springList) THEN K
    ELSE addSpringsStiffnessFrom(k + 1, Spring_addStiffness(m_springList[k], state, K, scale),
                                 state, scale)

\* every spring adds its damping matrix
RECURSIVE addSpringsDampingFrom(_, _, _)
addSpringsDampingFrom(k, D, state) ==
    IF k > Len(m_springList) THEN D
    ELSE addSpringsDampingFrom(k + 1, Spring_addDamping(m_springList[k], state, D, 1), state)

\* every spring adds alphaK * K_local * x
RECURSIVE addSpringsMatVecFrom(_, _, _, _, _)
addSpringsMatVecFrom(k, state, alphaK, x, force) ==
    IF k > Len(m_springList) THEN force
    ELSE addSpringsMatVecFrom(k + 1, state, alphaK, x,
                              Spring_addMatVec(m_springList[k], state, 0, alphaK, x, force))

\* addGravityForce(f, state, scale)
addGravityForce(f, state) ==
    IF m_isGravityEnabled
    THEN [i \in DOMAIN f |->
            IF NodeOf(i) < Len(m_massList)
            THEN f[i] + Gravity[AxisOf(i) + 1] * getMass(NodeOf(i))
            ELSE f[i]]
    ELSE f

\* addRayleighDampingForce(force, state, useGlobalDampingMatrix,
\*     useGlobalStiffnessMatrix, useGlobalMassMatrix, scale), reading the
\* matrices D, K and the diagonal M held by the representation
addRayleighDampingForce(force, state, useGlobalDampingMatrix, useGlobalStiffnessMatrix, useGlobalMassMatrix, scale, D, K, M) ==
    LET rayleighMass == m_rayleighDamping.massCoefficient
        rayleighStiffness == m_rayleighDamping.stiffnessCoefficient
        v == state.velocities
        n == getNumDofOf(state)
    IN
    IF useGlobalDampingMatrix /\ (rayleighStiffness # 0 \/ rayleighMass # 0)
    THEN LET Dv == MatVec(D, v, n) IN [i \in DOMAIN force |-> force[i] - scale * Dv[i]]
    ELSE
      LET f1 == IF rayleighMass # 0
                THEN IF useGlobalMassMatrix
                     THEN [i \in DOMAIN force |-> force[i] - (scale * rayleighMass) * (M[i] * v[i])]
                     ELSE [i \in DOMAIN force |->
                             IF NodeOf(i) < Len(m_massList)
                             THEN force[i] - scale * rayleighMass
                                               * getMass(NodeOf(i)) * v[i]
                             ELSE force[i]]
                ELSE force
      IN IF rayleighStiffness # 0
         THEN IF useGlobalStiffnessMatrix
              THEN LET Kv == MatVec(K, v, n) IN
                   [i \in DOMAIN f1 |-> f1[i] - scale * rayleighStiffness * Kv[i]]
              ELSE addSpringsMatVecFrom(1, state, 0 - scale * rayleighStiffness, v, f1)
         ELSE f1

\* "Apply boundary conditions globally" on a vector: entry := value
RECURSIVE applyBoundaryToVector(_, _, _, _)
applyBoundaryToVector(k, bcs, x, value) ==
    IF k > Len(bcs) THEN x
    ELSE applyBoundaryToVector(k + 1, bcs, [x EXCEPT ![bcs[k]] = value], value)

\* "Apply boundary conditions globally" on a matrix: row and column zeroed,
\* then the diagonal entry set
boundaryOnMatrix_RowOnly(A, bc) ==
    [ij \in DOMAIN A |->
        IF ij[1] = bc /\ ij[2] = bc THEN BoundaryPenalty
        ELSE IF ij[1] = bc THEN 0
        ELSE A[ij]]
boundaryOnMatrix(A, bc) ==
    [ij \in DOMAIN A |->
        IF ij[1] = bc /\ ij[2] = bc THEN BoundaryPenalty
        ELSE IF ij[1] = bc \/ ij[2] = bc THEN 0
        ELSE A[ij]]

RECURSIVE applyBoundaryToMatrix(_, _, _)
applyBoundaryToMatrix(k, bcs, A) ==
    IF k > Len(bcs) THEN A
    ELSE applyBoundaryToMatrix(k + 1, bcs, boundaryOnMatrix(A, bcs[k]))

\* MassSpringRepresentation::computeF: the vector left in m_f
computeF_value(state) ==
    LET n == getNumDofOf(state)
        f0 == ZeroVector(n)
        f1 == addGravityForce(f0, state)
        f2 == addRayleighDampingForce(f1, state, FALSE, FALSE, FALSE, 1, m_D, m_K, m_M)
        f3 == addSpringsForce(f2, state, 1)
    IN applyBoundaryToVector(1, state.boundaryConditions, f3, 0)

\* MassSpringRepresentation::computeM: the diagonal left in m_M
computeM_value(state) ==
    LET n == getNumDofOf(state)
        diagonal == [i \in Dofs(n) |-> getMass(NodeOf(i))]
    IN applyBoundaryToVector(1, state.boundaryConditions, diagonal, BoundaryPenalty)

\* MassSpringRepresentation::computeD: the matrix left in m_D
computeD_value(state) ==
    LET n == getNumDofOf(state)
        rayleighStiffness == m_rayleighDamping.stiffnessCoefficient
        rayleighMass == m_rayleighDamping.massCoefficient
        D0 == ZeroMatrix(n)
        D1 == IF rayleighMass # 0
              THEN [ij \in DOMAIN D0 |->
                      IF ij[1] = ij[2] THEN rayleighMass * getMass(NodeOf(ij[1]))
                      ELSE D0[ij]]
              ELSE D0
        D2 == IF rayleighStiffness # 0
              THEN addSpringsStiffnessFrom(1, D1, state, rayleighStiffness)
              ELSE D1
        D3 == addSpringsDampingFrom(1, D2, state)
    IN applyBoundaryToMatrix(1, state.boundaryConditions, D3)

\* MassSpringRepresentation::computeK: the matrix left in m_K
computeK_value(state) ==
    LET n == getNumDofOf(state)
        K1 == addSpringsStiffnessFrom(1, ZeroMatrix(n), state, 1)
    IN applyBoundaryToMatrix(1, state.boundaryConditions, K1)

\* every spring's addFDK(state, F, D, K): force, damping and stiffness
RECURSIVE addSpringsFDKFrom(_, _, _)
addSpringsFDKFrom(k, state, fdk) ==
    IF k > Len(m_springList) THEN fdk
    ELSE addSpringsFDKFrom(k + 1, state,
            [f |-> Spring_addForce(m_springList[k], state, fdk.f, 1),
             D |-> Spring_addDamping(m_springList[k], state, fdk.D, 1),
             K |-> Spring_addStiffness(m_springList[k], state, fdk.K, 1)])

\* MassSpringRepresentation::computeFMDK: what is left in m_f, m_M, m_D, m_K
computeFMDK_value(state) ==
    LET n == getNumDofOf(state)
        M1 == computeM_value(state)
        fdk == addSpringsFDKFrom(1, state, [f |-> ZeroVector(n), D |-> ZeroMatrix(n),
                                            K |-> ZeroMatrix(n)])
        D1 == IF m_rayleighDamping.massCoefficient # 0
              THEN [ij \in DOMAIN fdk.D |->
                      IF ij[1] = ij[2]
                      THEN fdk.D[ij] + M1[ij[1]] * m_rayleighDamping.massCoefficient
                      ELSE fdk.D[ij]]
              ELSE fdk.D
        D2 == IF m_rayleighDamping.stiffnessCoefficient # 0
              THEN [ij \in DOMAIN D1 |->
                      D1[ij] + fdk.K[ij] * m_rayleighDamping.stiffnessCoefficient]
              ELSE D1
        f1 == addGravityForce(fdk.f, state)
        f2 == addRayleighDampingForce(f1, state, TRUE, FALSE, FALSE, 1, D2, fdk.K, M1)
        bcs == state.boundaryConditions
    IN [f |-> applyBoundaryToVector(1, bcs, f2, 0),
        M |-> applyBoundaryToVector(1, bcs, M1, BoundaryPenalty),
        D |-> applyBoundaryToMatrix(1, bcs, D2),
        K |-> applyBoundaryToMatrix(1, bcs, fdk.K)]

----------------------------------------------------------------------------
(* The bodies and states the assembly is explored on *)

MassLists(n) == {[k \in 1..n |-> k]}

StiffnessAndDamping == {<<1, 0>>, <<2, 1>>}

SpringKinds(n) ==
    {[nodeA |-> a, nodeB |-> a + 1, stiffness |-> kd[1], damping |-> kd[2],
      x0 |-> ZeroVector(NumDofPerNode * n)] : a \in 0..(n - 2), kd \in StiffnessAndDamping}

SpringLists(n) == UNION {[1..m -> SpringKinds(n)] : m \in 0..MaxAsmSprings}

RayleighCoefficients ==
    {[massCoefficient |-> a, stiffnessCoefficient |-> b] : a \in {0, 1}, b \in {0, 1}}

BoundaryConditionLists(n) ==
    {<<>>} \cup {<<i>> : i \in Dofs(n)}
           \cup {<<i, (i + NumDofPerNode) % n>> : i \in Dofs(n)}

AsmStates(n) ==
    LET d == NumDofPerNode * n IN
    {[numNodes |-> n, positions |-> x, velocities |-> v, boundaryConditions |-> bcs] :
        x \in {ZeroVector(d), [i \in Dofs(d) |-> NodeOf(i) + AxisOf(i)]},
        v \in {[i \in Dofs(d) |-> 1],
               [i \in Dofs(d) |-> IF i % 2 = 0 THEN 1 ELSE 0 - 1]},
        bcs \in BoundaryConditionLists(d)}

\* The variables of the pipeline while the assembly is explored
BodyIdle ==
    /\ m_isActive = TRUE
    /\ numMasses = 0
    /\ numSprings = 0
    /\ m_numDof = 0
    /\ m_odeSolver = FALSE
    /\ heap = <<>>
    /\ m_initialState = "bufInitial"
    /\ m_previousState = "bufA"
    /\ m_currentState = "bufB"
    /\ m_newState = "bufC"
    /\ m_finalState = "bufFinal"
    /\ lastOp = CallRec("none", "ok", TRUE, NoArgs)
    /\ everBeforeUpdate = FALSE
    /\ nOps = 0

\* A body with its masses, springs and damping coefficients set, and a state
\* of as many nodes as it has masses
InitAsm ==
    \E n \in 1..MaxAsmNodes :
        /\ m_massList \in MassLists(n)
        /\ m_springList \in SpringLists(n)
        /\ m_rayleighDamping \in RayleighCoefficients
        /\ m_isGravityEnabled \in BOOLEAN
        /\ odeState \in AsmStates(n)
        /\ m_f = <<>>
        /\ m_M = <<>>
        /\ m_D = <<>>
        /\ m_K = <<>>
        /\ asmCall = "none"

asmInputs == <<m_massList, m_springList, m_rayleighDamping, m_isGravityEnabled, odeState>>

computeF ==
    /\ UNCHANGED notAsmVars
    /\ asmCall = "none"
    /\ m_f' = computeF_value(odeState)
    /\ asmCall' = "computeF"
    /\ UNCHANGED <<asmInputs, m_M, m_D, m_K>>

computeM ==
    /\ UNCHANGED notAsmVars
    /\ asmCall = "none"
    /\ m_M' = computeM_value(odeState)
    /\ asmCall' = "computeM"
    /\ UNCHANGED <<asmInputs, m_f, m_D, m_K>>

computeD ==
    /\ UNCHANGED notAsmVars
    /\ asmCall = "none"
    /\ m_D' = computeD_value(odeState)
    /\ asmCall' = "computeD"
    /\ UNCHANGED <<asmInputs, m_f, m_M, m_K>>

computeK ==
    /\ UNCHANGED notAsmVars
    /\ asmCall = "none"
    /\ m_K' = computeK_value(odeState)
    /\ asmCall' = "computeK"
    /\ UNCHANGED <<asmInputs, m_f, m_M, m_D>>

computeFMDK ==
    /\ UNCHANGED notAsmVars
    /\ asmCall = "none"
    /\ LET r == computeFMDK_value(odeState) IN
       /\ m_f' = r.f
       /\ m_M' = r.M
       /\ m_D' = r.D
       /\ m_K' = r.K
    /\ asmCall' = "computeFMDK"
    /\ UNCHANGED asmInputs

NextAsm ==
    \/ computeF
    \/ computeM
    \/ computeD
    \/ computeK
    \/ computeFMDK

\* A body ready for assembly; pipeline not run, no FEM element
InitAssembly == InitAsm /\ BodyIdle /\ FemIdle /\ MathIdle /\ OdeIdle /\ ComponentIdle /\ ContactIdle /\ ParticleIdle /\ KeyboardIdle /\ ScaffoldIdle

SpecAsm == InitAssembly /\ [][NextAsm]_vars

----------------------------------------------------------------------------
(* Doubles of the FEM element: exact rationals <<"q", n, d>> in lowest     *)
(* terms with d > 0, extended with NaN, +Inf and -Inf. Rounding is not     *)
(* modelled, the IEEE-754 rules for NaN and the infinities are.            *)

Abs(n) == IF n < 0 THEN 0 - n ELSE n

RECURSIVE GCD(_, _)
GCD(a, b) == IF b = 0 THEN a ELSE GCD(b, a % b)

\* n / d for d # 0
Q(n, d) ==
    LET g == GCD(Abs(n), Abs(d)) IN <<"q", Sign(d) * (n \div g), Abs(d) \div g>>

QInt(n) == <<"q", n, 1>>

qIsFinite(x) == x[1] = "q"
qSign(x) == Sign(x[2])

qneg(x) ==
    IF x[1] = "nan" THEN NaN
    ELSE IF x[1] = "inf" THEN <<"inf", 0 - x[2]>>
    ELSE <<"q", 0 - x[2], x[3]>>

qadd(x, y) ==
    IF x[1] = "nan" \/ y[1] = "nan" THEN NaN
    ELSE IF x[1] = "inf" /\ y[1] = "inf" THEN (IF x[2] = y[2] THEN x ELSE NaN)
    ELSE IF x[1] = "inf" THEN x
    ELSE IF y[1] = "inf" THEN y
    ELSE LET l == (x[3] \div GCD(x[3], y[3])) * y[3]
         IN Q(x[2] * (l \div x[3]) + y[2] * (l \div y[3]), l)

qsub(x, y) == qadd(x, qneg(y))

qmul(x, y) ==
    IF x[1] = "nan" \/ y[1] = "nan" THEN NaN
    ELSE IF x[1] = "inf" \/ y[1] = "inf"
         THEN (IF qSign(x) * qSign(y) = 0 THEN NaN ELSE <<"inf", qSign(x) * qSign(y)>>)
    ELSE LET g1 == GCD(Abs(x[2]), y[3])
             g2 == GCD(Abs(y[2]), x[3])
         IN Q((x[2] \div g1) * (y[2] \div g2), (x[3] \div g2) * (y[3] \div g1))

\* x / y; the sign of a zero divisor is taken as positive
qdiv(x, y) ==
    IF x[1] = "nan" \/ y[1] = "nan" THEN NaN
    ELSE IF y[1] = "inf" THEN (IF x[1] = "inf" THEN NaN ELSE QInt(0))
    ELSE IF x[1] = "inf" THEN <<"inf", IF y[2] < 0 THEN 0 - x[2] ELSE x[2]>>
    ELSE IF y[2] = 0 THEN (IF x[2] = 0 THEN NaN ELSE <<"inf", Sign(x[2])>>)
    ELSE qmul(x, Q(y[3], y[2]))

\* x < y; false when either is NaN
qlt(x, y) ==
    IF x[1] = "nan" \/ y[1] = "nan" THEN FALSE
    ELSE IF x[1] = "inf" THEN x[2] < 0 /\ x # y
    ELSE IF y[1] = "inf" THEN y[2] > 0
    ELSE x[2] * y[3] < y[2] * x[3]

\* sum of f[k] for k in lo..hi, added in the order of k
RECURSIVE qsum(_, _, _)
qsum(f, lo, hi) == IF hi < lo THEN QInt(0) ELSE qadd(qsum(f, lo, hi - 1), f[hi])

(* Vectors are functions on 0..n-1, matrices functions on pairs <<i, j>>.  *)

VectorOfSize(n) == [i \in 0..(n - 1) |-> QInt(0)]
MatrixOfSize(n) == [ij \in (0..(n - 1)) \X (0..(n - 1)) |-> QInt(0)]
SizeOfVector(v) == Cardinality(DOMAIN v)

\* vector.segment(blockSize * blockId, blockSize)
getSubVector1(vector, blockId, blockSize) ==
    [a \in 0..(blockSize - 1) |-> vector[blockSize * blockId + a]]

\* getSubVector(vector, blockIds, blockSize, &subVector)
getSubVector(vector, blockIds, blockSize) ==
    [i \in 0..(blockSize * Len(blockIds) - 1) |->
        vector[blockSize * blockIds[(i \div blockSize) + 1] + (i % blockSize)]]

\* addSubVector(subVector, blockIds, blockSize, &vector): the blocks are
\* added one after the other, so a block id that occurs twice receives both
addSubVector(subVector, blockIds, blockSize, vector) ==
    [j \in DOMAIN vector |->
        IF \E block \in 0..(Len(blockIds) - 1) : blockIds[block + 1] = j \div blockSize
        THEN qadd(vector[j],
                  qsum([block \in 0..(Len(blockIds) - 1) |->
                           IF blockIds[block + 1] = j \div blockSize
                           THEN subVector[blockSize * block + (j % blockSize)]
                           ELSE QInt(0)], 0, Len(blockIds) - 1))
        ELSE vector[j]]

\* addSubMatrix(subMatrix, blockIds, blockSize, &matrix): block (b0, b1) of
\* subMatrix is added to block (blockIds[b0], blockIds[b1]) of matrix
addSubMatrix(subMatrix, blockIds, blockSize, matrix) ==
    LET n == Len(blockIds)
        hits(ij, pair) == /\ blockIds[(pair \div n) + 1] = ij[1] \div blockSize
                          /\ blockIds[(pair % n) + 1] = ij[2] \div blockSize
    IN [ij \in DOMAIN matrix |->
        IF \E pair \in 0..(n * n - 1) : hits(ij, pair)
        THEN qadd(matrix[ij],
                  qsum([pair \in 0..(n * n - 1) |->
                           IF hits(ij, pair)
                           THEN subMatrix[<<blockSize * (pair \div n) + (ij[1] % blockSize),
                                            blockSize * (pair % n) + (ij[2] % blockSize)>>]
                           ELSE QInt(0)], 0, n * n - 1))
        ELSE matrix[ij]]

\* scalar * matrix, scalar * vector, matrix * vector, vector - vector
qScaleM(A, c) == [ij \in DOMAIN A |-> qmul(A[ij], c)]
qScaleV(v, c) == [i \in DOMAIN v |-> qmul(v[i], c)]
qMatVec(A, v) ==
    [i \in DOMAIN v |-> qsum([j \in DOMAIN v |-> qmul(A[<<i, j>>], v[j])], 0, SizeOfVector(v) - 1)]
qVecSub(v, w) == [i \in DOMAIN v |-> qsub(v[i], w[i])]
qVecAdd(v, w) == [i \in DOMAIN v |-> qadd(v[i], w[i])]

----------------------------------------------------------------------------
(* FemElement3DTetrahedron: material parameters and initialize *)

\* A tetrahedron has four nodes
NumTetrahedronNodes == 4

MassDensities == {0 - 1234, 0, 1234}
YoungModuli == {0 - 4, 0, 4}
\* Poisson ratios -0.1, 0, 0.499, 0.5, 0.55
PoissonRatios == {0 - 100, 0, 499, 500, 550}
PoissonRatioLimit == 500

\* In range and out of range, both windings, and a node id that occurs twice
NodeIdChoices ==
    {<<0, 1, 2, 3>>, <<3, 1, 0, 2>>, <<0, 1, 2, NumTetrahedronNodes>>,
     <<NumTetrahedronNodes + 1, 2, 1, 0>>, <<1, 0, 2, 3>>, <<1, 2, 3, 1>>}

\* The position of each node of a state of n nodes: the corners of the unit
\* tetrahedron and (1, 1, 1); in the flat configuration node 3 lies in the
\* plane of nodes 0, 1 and 2
NodePosition(node, flat) ==
    IF node = 0 THEN <<0, 0, 0>>
    ELSE IF node = 1 THEN <<1, 0, 0>>
    ELSE IF node = 2 THEN <<0, 1, 0>>
    ELSE IF node = 3 THEN (IF flat THEN <<1, 1, 0>> ELSE <<0, 0, 1>>)
    ELSE <<1, 1, 1>>
RestPositions(n) ==
    {[i \in 0..(3 * n - 1) |-> QInt(NodePosition(i \div 3, flat)[(i % 3) + 1])] : flat \in BOOLEAN}

\* FemElement::initialize(state): the material parameter that is rejected
\* first, or "ok"
FemElement_initialize(rho, E, nu) ==
    IF ~(rho > 0) THEN "invalidMassDensity"
    ELSE IF ~(E > 0) THEN "invalidYoungModulus"
    ELSE IF ~(nu >= 0 /\ nu < PoissonRatioLimit) THEN "invalidPoissonRatio"
    ELSE "ok"

\* How FemElement3DTetrahedron::initialize(state) ends: the base class
\* validates the physical parameters, then every node id is asserted to be
\* in the range of the state
initializeResult_NoParameterTest(rho, E, nu, nodeIds, numNodes) ==
    IF \E k \in 1..Len(nodeIds) : ~(nodeIds[k] >= 0 /\ nodeIds[k] < numNodes)
    THEN "assertNodeId"
    ELSE "ok"
initializeResult(rho, E, nu, nodeIds, numNodes) ==
    IF FemElement_initialize(rho, E, nu) # "ok" THEN FemElement_initialize(rho, E, nu)
    ELSE IF \E k \in 1..Len(nodeIds) : ~(nodeIds[k] >= 0 /\ nodeIds[k] < numNodes)
    THEN "assertNodeId"
    ELSE "ok"

\* det(a, b, c): the determinant of three 3d vectors
det(a, b, c) ==
    qsub(qsub(qsub(qadd(qadd(qmul(qmul(a[0], b[1]), c[2]), qmul(qmul(a[2], b[0]), c[1])),
                        qmul(qmul(a[1], b[2]), c[0])),
                   qmul(qmul(a[2], b[1]), c[0])),
              qmul(qmul(a[1], b[0]), c[2])),
         qmul(qmul(a[0], b[2]), c[1]))

\* Vector3d(1, p[i], p[j])
tilde(p, i, j) == [a \in 0..2 |-> IF a = 0 THEN QInt(1) ELSE IF a = 1 THEN p[i] ELSE p[j]]

cross(u, v) ==
    [a \in 0..2 |-> qsub(qmul(u[(a + 1) % 3], v[(a + 2) % 3]),
                         qmul(u[(a + 2) % 3], v[(a + 1) % 3]))]
dot(u, v) == qadd(qadd(qmul(u[0], v[0]), qmul(u[1], v[1])), qmul(u[2], v[2]))

\* FemElement3DTetrahedron::getVolume(state): the signed volume
getVolume(positions, nodeIds) ==
    LET p0 == getSubVector1(positions, nodeIds[1], 3)
        p1 == getSubVector1(positions, nodeIds[2], 3)
        p2 == getSubVector1(positions, nodeIds[3], 3)
        p3 == getSubVector1(positions, nodeIds[4], 3)
    IN qdiv(qsub(qadd(qsub(det(p1, p2, p3), det(p0, p2, p3)), det(p0, p1, p3)),
                 det(p0, p1, p2)),
            QInt(6))

\* The four determinants of a shape function coefficient with their signs:
\* -, +, -, + when the first is negated, else +, -, +, -
alternateSigns(v, negateFirst) ==
    IF negateFirst THEN <<qneg(v[1]), v[2], qneg(v[3]), v[4]>>
    ELSE <<v[1], qneg(v[2]), v[3], qneg(v[4])>>

\* FemElement3DTetrahedron::computeShapeFunctions(restState): m_restVolume
\* and the coefficients m_ai, m_bi, m_ci, m_di, each a sequence of four
computeShapeFunctions(positions, nodeIds) ==
    LET a == getSubVector1(positions, nodeIds[1], 3)
        b == getSubVector1(positions, nodeIds[2], 3)
        c == getSubVector1(positions, nodeIds[3], 3)
        d == getSubVector1(positions, nodeIds[4], 3)
        coefficients(i, j) ==
            <<det(tilde(b, i, j), tilde(c, i, j), tilde(d, i, j)),
              det(tilde(a, i, j), tilde(c, i, j), tilde(d, i, j)),
              det(tilde(a, i, j), tilde(b, i, j), tilde(d, i, j)),
              det(tilde(a, i, j), tilde(b, i, j), tilde(c, i, j))>>
    IN [restVolume |-> getVolume(positions, nodeIds),
        ai |-> <<det(b, c, d), qneg(det(a, c, d)), det(a, b, d), qneg(det(a, b, c))>>,
        bi |-> alternateSigns(coefficients(1, 2), TRUE),
        ci |-> alternateSigns(coefficients(0, 2), FALSE),
        di |-> alternateSigns(coefficients(0, 1), TRUE)]

\* FemElement3DTetrahedron::computeMass(state, &M)
computeMass_UniformBlocks(positions, nodeIds, rho) ==
    LET coef == qdiv(qmul(getVolume(positions, nodeIds), QInt(rho)), QInt(20)) IN
    [ij \in (0..11) \X (0..11) |-> IF ij[1] % 3 # ij[2] % 3 THEN QInt(0) ELSE coef]
computeMass(positions, nodeIds, rho) ==
    LET coef == qdiv(qmul(getVolume(positions, nodeIds), QInt(rho)), QInt(20)) IN
    [ij \in (0..11) \X (0..11) |->
        IF ij[1] % 3 # ij[2] % 3 THEN QInt(0)
        ELSE IF ij[1] \div 3 = ij[2] \div 3 THEN qmul(QInt(2), coef)
        ELSE coef]

\* The Poisson ratio, kept in thousandths, as a number
PoissonRatioOf(nu) == Q(nu, 1000)

\* m_strain: the 6x12 strain matrix
strainMatrix(restVolume, shape) ==
    LET coef == qdiv(QInt(1), qmul(QInt(6), restVolume)) IN
    [ak \in (0..5) \X (0..11) |->
        LET i == (ak[2] \div 3) + 1
            axis == ak[2] % 3
            row == ak[1]
        IN IF (row = 0 /\ axis = 0) \/ (row = 3 /\ axis = 1) \/ (row = 5 /\ axis = 2)
           THEN qmul(coef, shape.bi[i])
           ELSE IF (row = 1 /\ axis = 1) \/ (row = 3 /\ axis = 0) \/ (row = 4 /\ axis = 2)
           THEN qmul(coef, shape.ci[i])
           ELSE IF (row = 2 /\ axis = 2) \/ (row = 4 /\ axis = 1) \/ (row = 5 /\ axis = 0)
           THEN qmul(coef, shape.di[i])
           ELSE QInt(0)]

\* m_Em: the 6x6 elasticity material matrix
materialMatrix(E, nu) ==
    LET n == PoissonRatioOf(nu)
        lambda == qdiv(qmul(QInt(E), n),
                       qmul(qadd(QInt(1), n), qsub(QInt(1), qmul(QInt(2), n))))
        mu == qdiv(QInt(E), qmul(QInt(2), qadd(QInt(1), n)))
    IN [ab \in (0..5) \X (0..5) |->
        IF ab[1] = ab[2] /\ ab[1] < 3 THEN qadd(qmul(QInt(2), mu), lambda)
        ELSE IF ab[1] < 3 /\ ab[2] < 3 THEN lambda
        ELSE IF ab[1] = ab[2] THEN mu
        ELSE QInt(0)]

\* A matrix held in a temporary: the same matrix, its entries computed once
Evaluated(f) == IF f = f THEN f ELSE f

\* FemElement3DTetrahedron::computeStiffness(state, &k)
computeStiffness(restVolume, shape, E, nu) ==
    LET strain == Evaluated(strainMatrix(restVolume, shape))
        Em == Evaluated(materialMatrix(E, nu))
        stress == Evaluated([ak \in (0..5) \X (0..11) |->
                     qsum([b \in 0..5 |-> qmul(Em[<<ak[1], b>>], strain[<<b, ak[2]>>])], 0, 5)])
        scaled == Evaluated([ka \in (0..11) \X (0..5) |-> qmul(restVolume, strain[<<ka[2], ka[1]>>])])
        k == Evaluated([ij \in (0..11) \X (0..11) |->
                qsum([a \in 0..5 |-> qmul(scaled[<<ij[1], a>>], stress[<<a, ij[2]>>])], 0, 5)])
    IN [ij \in (0..11) \X (0..11) |->
            qmul(qadd(k[ij], k[<<ij[2], ij[1]>>]), Q(1, 2))]

\* The counter clock-wise test of initialize: AB.cross(AC).dot(AD) < 0
isIllDefined(x0) ==
    LET A == getSubVector1(x0, 0, 3)
        B == getSubVector1(x0, 1, 3)
        C == getSubVector1(x0, 2, 3)
        D == getSubVector1(x0, 3, 3)
        AB == qVecSub(B, A)
        AC == qVecSub(C, A)
        AD == qVecSub(D, A)
    IN qlt(dot(cross(AB, AC), AD), QInt(0))

\* The node ids whose position initialize reads from the state: those of
\* the element once the assertions have passed, none when one has failed
positionsRead_BeforeAssertions(result, nodeIds) ==
    IF result \in {"ok", "assertNodeId"} THEN {nodeIds[k] : k \in 1..Len(nodeIds)} ELSE {}
positionsRead(result, nodeIds) ==
    IF result = "ok" THEN {nodeIds[k] : k \in 1..Len(nodeIds)} ELSE {}

\* The element as constructed from its node ids: no parameter set yet
InitFem ==
    /\ m_rho = 0
    /\ m_E = 0
    /\ m_nu = 0
    /\ m_nodeIds \in NodeIdChoices
    /\ femNumNodes \in {NumTetrahedronNodes, NumTetrahedronNodes + 1}
    /\ femCall = [op |-> "FemElement3DTetrahedron", result |-> "ok"]
    /\ femPositions \in RestPositions(femNumNodes)
    /\ m_x0 = <<>>
    /\ m_restVolume = <<>>
    /\ shapeFunctions = <<>>
    /\ m_MLocal = <<>>
    /\ m_KLocal = <<>>
    /\ femWarning = FALSE
    /\ femReads = {}
    /\ femOut = <<>>

\* What a call that only sets a parameter leaves alone or clears
parameterFrame ==
    /\ femReads' = {}
    /\ femOut' = <<>>
    /\ UNCHANGED <<m_nodeIds, femNumNodes, femPositions, femCache, femWarning>>

setMassDensity(rho) ==
    /\ UNCHANGED notFemVars
    /\ m_rho' = rho
    /\ femCall' = [op |-> "setMassDensity", result |-> "ok"]
    /\ parameterFrame
    /\ UNCHANGED <<m_E, m_nu>>

setYoungModulus(E) ==
    /\ UNCHANGED notFemVars
    /\ m_E' = E
    /\ femCall' = [op |-> "setYoungModulus", result |-> "ok"]
    /\ parameterFrame
    /\ UNCHANGED <<m_rho, m_nu>>

setPoissonRatio(nu) ==
    /\ UNCHANGED notFemVars
    /\ m_nu' = nu
    /\ femCall' = [op |-> "setPoissonRatio", result |-> "ok"]
    /\ parameterFrame
    /\ UNCHANGED <<m_rho, m_E>>

\* What a successful initialize caches: m_restVolume and the shape functions
\* (computeShapeFunctions), m_x0, whether the warning is logged, m_M
\* (computeMass) and m_K (computeStiffness)
initializeDataWith(shape, x0, M, E, nu) ==
    [restVolume |-> shape.restVolume,
     shapeFunctions |-> [ai |-> shape.ai, bi |-> shape.bi, ci |-> shape.ci, di |-> shape.di],
     x0 |-> x0,
     warning |-> isIllDefined(x0),
     M |-> M,
     K |-> computeStiffness(shape.restVolume, shape, E, nu)]
initializeData(positions, nodeIds, rho, E, nu) ==
    initializeDataWith(computeShapeFunctions(positions, nodeIds),
                       getSubVector(positions, nodeIds, 3),
                       computeMass(positions, nodeIds, rho), E, nu)

\* The elements with valid parameters on the rest states they fit in, and
\* their initializeData, each computed once
ValidElements ==
    {c \in (RestPositions(NumTetrahedronNodes) \cup RestPositions(NumTetrahedronNodes + 1))
             \X NodeIdChoices \X MassDensities \X YoungModuli \X PoissonRatios :
        /\ \A k \in 1..Len(c[2]) : 3 * c[2][k] + 2 \in DOMAIN c[1]
        /\ FemElement_initialize(c[3], c[4], c[5]) = "ok"}
ValidElementData ==
    Evaluated([c \in ValidElements |-> initializeData(c[1], c[2], c[3], c[4], c[5])])
initializeDataOf(positions, nodeIds, rho, E, nu) ==
    IF <<positions, nodeIds, rho, E, nu>> \in ValidElements
    THEN ValidElementData[<<positions, nodeIds, rho, E, nu>>]
    ELSE initializeData(positions, nodeIds, rho, E, nu)

\* The members a successful initialize assigns
cache(data) ==
    /\ m_restVolume' = data.restVolume
    /\ shapeFunctions' = data.shapeFunctions
    /\ m_x0' = data.x0
    /\ femWarning' = data.warning
    /\ m_MLocal' = data.M
    /\ m_KLocal' = data.K

initialize ==
    /\ UNCHANGED notFemVars
    /\ LET r == initializeResult(m_rho, m_E, m_nu, m_nodeIds, femNumNodes) IN
       /\ femCall' = [op |-> "initialize", result |-> r]
       /\ femReads' = positionsRead(r, m_nodeIds)
       /\ IF r = "ok"
          THEN cache(initializeDataOf(femPositions, m_nodeIds, m_rho, m_E, m_nu))
          ELSE /\ femWarning' = FALSE
               /\ UNCHANGED femCache
    /\ femOut' = <<>>
    /\ UNCHANGED <<m_rho, m_E, m_nu, m_nodeIds, femNumNodes, femPositions>>

\* What a call that only uses the element leaves alone
useFrame ==
    UNCHANGED <<m_rho, m_E, m_nu, m_nodeIds, femNumNodes, femPositions, femCache, femWarning>>

\* The calls that use the cached data are explored on a freshly initialized
\* element
isReady == femCall = [op |-> "initialize", result |-> "ok"]

nodeIdSet == {m_nodeIds[k] : k \in 1..Len(m_nodeIds)}

\* States handed to addForce: the rest state, and node 1 moved by 1 along x
CurrentPositions == {femPositions, [femPositions EXCEPT ![3] = qadd(@, QInt(1))]}

\* Global vectors and matrices handed to the element to add into
GlobalVectors == {VectorOfSize(3 * femNumNodes), [j \in 0..(3 * femNumNodes - 1) |-> QInt(j + 1)]}
GlobalMatrix ==
    [ij \in (0..(3 * femNumNodes - 1)) \X (0..(3 * femNumNodes - 1)) |->
        QInt(IF ij[1] = ij[2] THEN 1 ELSE 0)]
Scales == {1, 2}

\* addForce(state, k, F, scale): F with (-scale) * k * (x - m_x0) added at the
\* blocks of the node ids
addForce_value_Subtracts(positions, k, F, scale) ==
    LET x == getSubVector(positions, m_nodeIds, 3)
        f == qMatVec(qScaleM(k, QInt(scale)), qVecSub(x, m_x0))
    IN addSubVector(f, m_nodeIds, 3, F)
addForce_value(positions, k, F, scale) ==
    LET x == getSubVector(positions, m_nodeIds, 3)
        f == qMatVec(qScaleM(k, QInt(0 - scale)), qVecSub(x, m_x0))
    IN addSubVector(f, m_nodeIds, 3, F)

addForce ==
    /\ UNCHANGED notFemVars
    /\ isReady
    /\ \E positions \in CurrentPositions : \E F \in GlobalVectors : \E scale \in Scales :
        /\ femOut' = [positions |-> positions, scale |-> scale, F0 |-> F,
                      F |-> addForce_value(positions, m_KLocal, F, scale)]
    /\ femCall' = [op |-> "addForce", result |-> "ok"]
    /\ femReads' = nodeIdSet
    /\ useFrame

\* Scalars and the vector x handed to addMatVec
Alphas == {0, 2}
MatVecInputs == {[j \in 0..(3 * femNumNodes - 1) |-> QInt(j - 2)]}

\* addMatVec(state, alphaM, alphaD, alphaK, x, F): the vector F afterwards
addMatVec_value_ReturnsOnAnyZero(alphaM, alphaD, alphaK, x, F) ==
    IF alphaM = 0 \/ alphaK = 0 THEN F
    ELSE LET xLoc == getSubVector(x, m_nodeIds, 3)
             withMass == addSubVector(qScaleV(qMatVec(m_MLocal, xLoc), QInt(alphaM)), m_nodeIds, 3, F)
         IN addSubVector(qScaleV(qMatVec(m_KLocal, xLoc), QInt(alphaK)), m_nodeIds, 3, withMass)
addMatVec_value(alphaM, alphaD, alphaK, x, F) ==
    IF alphaM = 0 /\ alphaK = 0 THEN F
    ELSE LET xLoc == getSubVector(x, m_nodeIds, 3)
             withMass == IF alphaM # 0
                         THEN addSubVector(qScaleV(qMatVec(m_MLocal, xLoc), QInt(alphaM)), m_nodeIds, 3, F)
                         ELSE F
         IN IF alphaK # 0
            THEN addSubVector(qScaleV(qMatVec(m_KLocal, xLoc), QInt(alphaK)), m_nodeIds, 3, withMass)
            ELSE withMass

addMatVec ==
    /\ UNCHANGED notFemVars
    /\ isReady
    /\ \E alphaM \in Alphas : \E alphaD \in Alphas : \E alphaK \in Alphas :
       \E x \in MatVecInputs : \E F \in GlobalVectors :
        /\ femOut' = [alphaM |-> alphaM, alphaD |-> alphaD, alphaK |-> alphaK, x |-> x,
                      F0 |-> F, F |-> addMatVec_value(alphaM, alphaD, alphaK, x, F)]
    /\ femCall' = [op |-> "addMatVec", result |-> "ok"]
    /\ femReads' = {}
    /\ useFrame

\* addMass(state, M, scale): M with m_M * scale added at the node blocks
addMass_value(M, scale) == addSubMatrix(qScaleM(m_MLocal, QInt(scale)), m_nodeIds, 3, M)

\* addDamping(state, D, scale): the body is empty
addDamping_value(D, scale) == D

\* addStiffness(state, K, scale): K with m_K * scale added at the node blocks
addStiffness_value(K, scale) == addSubMatrix(qScaleM(m_KLocal, QInt(scale)), m_nodeIds, 3, K)

\* addFMDK(state, F, M, D, K): addMass, addStiffness and addForce with their
\* default scale of 1
addFMDK_value_WithoutForce(positions, F, M, D, K) ==
    [F |-> F, M |-> addMass_value(M, 1), D |-> D, K |-> addStiffness_value(K, 1)]
addFMDK_value(positions, F, M, D, K) ==
    [F |-> addForce_value(positions, m_KLocal, F, 1), M |-> addMass_value(M, 1), D |-> D, K |-> addStiffness_value(K, 1)]

FemElement3DTetrahedron_addMass ==
    /\ UNCHANGED notFemVars
    /\ isReady
    /\ \E scale \in Scales :
        femOut' = [scale |-> scale, M0 |-> GlobalMatrix, M |-> addMass_value(GlobalMatrix, scale)]
    /\ femCall' = [op |-> "addMass", result |-> "ok"]
    /\ femReads' = {}
    /\ useFrame

addDamping ==
    /\ UNCHANGED notFemVars
    /\ isReady
    /\ \E scale \in Scales :
        femOut' = [scale |-> scale, D0 |-> GlobalMatrix, D |-> addDamping_value(GlobalMatrix, scale)]
    /\ femCall' = [op |-> "addDamping", result |-> "ok"]
    /\ femReads' = {}
    /\ useFrame

addStiffness ==
    /\ UNCHANGED notFemVars
    /\ isReady
    /\ \E scale \in Scales :
        femOut' = [scale |-> scale, K0 |-> GlobalMatrix, K |-> addStiffness_value(GlobalMatrix, scale)]
    /\ femCall' = [op |-> "addStiffness", result |-> "ok"]
    /\ femReads' = {}
    /\ useFrame

addFMDK ==
    /\ UNCHANGED notFemVars
    /\ isReady
    /\ \E positions \in CurrentPositions : \E F \in GlobalVectors :
        LET out == addFMDK_value(positions, F, GlobalMatrix, GlobalMatrix, GlobalMatrix) IN
        femOut' = [positions |-> positions, F0 |-> F, M0 |-> GlobalMatrix, D0 |-> GlobalMatrix,
                   K0 |-> GlobalMatrix, F |-> out.F, M |-> out.M, D |-> out.D, K |-> out.K]
    /\ femCall' = [op |-> "addFMDK", result |-> "ok"]
    /\ femReads' = nodeIdSet
    /\ useFrame

\* A natural coordinate component h / 100 + u * 1e-11 is kept as the record
\* [c |-> h, e |-> u]: hundredths, and units of the 1e-11 of the tests
nc(h, u) == [c |-> h, e |-> u]

\* SurgSim::Math::Geometry::ScalarEpsilon = 1e-10, in units of 1e-11
ScalarEpsilon == 10

\* The natural coordinates of the IsValidCoordinate test for four nodes, one
\* of three components, and the centre of the element
NaturalCoordinates ==
    {<<nc(100, 0), nc(0, 0), nc(0, 0), nc(0, 0)>>,
     <<nc(100, 1), nc(0, 0 - 1), nc(0, 0), nc(0, 0)>>,
     <<nc(50, 0), nc(50, 0), nc(0, 1), nc(0, 0)>>,
     <<nc(50, 1), nc(50, 1), nc(0, 0), nc(0, 0 - 1)>>,
     <<nc(50, 0), nc(0, 0), nc(41, 0), nc(10, 0)>>,
     <<nc(0, 0), nc(100, 0), nc(0, 0)>>,
     <<nc(0 - 1, 0), nc(0, 0), nc(101, 0), nc(0, 1)>>,
     <<nc(25, 0), nc(25, 0), nc(25, 0), nc(25, 0)>>}

\* naturalCoordinate.sum(), as hundredths and units of 1e-11
RECURSIVE coordinateSum(_)
coordinateSum(naturalCoordinate) ==
    IF naturalCoordinate = <<>> THEN nc(0, 0)
    ELSE LET rest == coordinateSum(Tail(naturalCoordinate))
         IN nc(Head(naturalCoordinate).c + rest.c, Head(naturalCoordinate).e + rest.e)

\* FemElement3DTetrahedron::isValidCoordinate(naturalCoordinate):
\* |sum - 1| < ScalarEpsilon and size 4. A sum whose hundredths differ from 100
\* is at least 0.01 - (a few 1e-11) away from 1.
isValidCoordinate(naturalCoordinate) ==
    LET sum == coordinateSum(naturalCoordinate)
    IN (sum.c = 100 /\ Abs(sum.e) < ScalarEpsilon) /\ Len(naturalCoordinate) = 4

\* FemElement3DTetrahedron::computeCartesianCoordinate: the assertion
computeCartesianCoordinate_result_SizeOnly(naturalCoordinate) ==
    IF Len(naturalCoordinate) = 4 THEN "ok" ELSE "assertValidCoordinate"
computeCartesianCoordinate_result(naturalCoordinate) ==
    IF isValidCoordinate(naturalCoordinate) THEN "ok" ELSE "assertValidCoordinate"

\* FemElement3DTetrahedron::computeCartesianCoordinate: the returned point.
\* Each of its three components is a pair <<a, b>> standing for a + b * 1e-11.
computeCartesianCoordinate_value(positions, naturalCoordinate) ==
    LET p(k) == getSubVector1(positions, m_nodeIds[k + 1], 3)
        weighted(k, axis) == <<qmul(Q(naturalCoordinate[k + 1].c, 100), p(k)[axis]),
                               qmul(QInt(naturalCoordinate[k + 1].e), p(k)[axis])>>
    IN [axis \in 0..2 |->
          <<qadd(qadd(qadd(weighted(0, axis)[1], weighted(1, axis)[1]), weighted(2, axis)[1]), weighted(3, axis)[1]),
            qadd(qadd(qadd(weighted(0, axis)[2], weighted(1, axis)[2]), weighted(2, axis)[2]), weighted(3, axis)[2])>>]

FemElement3DTetrahedron_isValidCoordinate ==
    /\ UNCHANGED notFemVars
    /\ isReady
    /\ \E naturalCoordinate \in NaturalCoordinates :
        femOut' = [naturalCoordinate |-> naturalCoordinate,
                   valid |-> isValidCoordinate(naturalCoordinate)]
    /\ femCall' = [op |-> "isValidCoordinate", result |-> "ok"]
    /\ femReads' = {}
    /\ useFrame

computeCartesianCoordinate ==
    /\ UNCHANGED notFemVars
    /\ isReady
    /\ \E positions \in CurrentPositions : \E naturalCoordinate \in NaturalCoordinates :
        LET r == computeCartesianCoordinate_result(naturalCoordinate) IN
        /\ femCall' = [op |-> "computeCartesianCoordinate", result |-> r]
        /\ femReads' = IF r = "ok" THEN nodeIdSet ELSE {}
        /\ femOut' = [positions |-> positions, naturalCoordinate |-> naturalCoordinate,
                      componentsRead |-> IF r = "ok" THEN 0..3 ELSE {},
                      value |-> IF r = "ok"
                                THEN computeCartesianCoordinate_value(positions, naturalCoordinate)
                                ELSE <<>>]
    /\ useFrame

NextFem ==
    \/ \E rho \in MassDensities : setMassDensity(rho)
    \/ \E E \in YoungModuli : setYoungModulus(E)
    \/ \E nu \in PoissonRatios : setPoissonRatio(nu)
    \/ initialize
    \/ addForce
    \/ addMatVec
    \/ FemElement3DTetrahedron_addMass
    \/ addDamping
    \/ addStiffness
    \/ addFMDK
    \/ FemElement3DTetrahedron_isValidCoordinate
    \/ computeCartesianCoordinate

\* A FEM element alone
InitElement == InitFem /\ BodyIdle /\ AsmIdle /\ MathIdle /\ OdeIdle /\ ComponentIdle /\ ContactIdle /\ ParticleIdle /\ KeyboardIdle /\ ScaffoldIdle

SpecFem == InitElement /\ [][NextFem]_vars

----------------------------------------------------------------------------
(* Math::clamp(&value, min, max, epsilon) *)

\* A scalar whole + tiny * u, where u is the smallest step the tests take for
\* the numeric kind (1e-4 for float, 1e-12 for double; an int has tiny = 0),
\* kept as the record [c |-> whole, e |-> tiny]
scalar(whole, tiny) == [c |-> whole, e |-> tiny]
scalarLeq(a, b) == a.c < b.c \/ (a.c = b.c /\ a.e <= b.e)
scalarAdd(a, b) == scalar(a.c + b.c, a.e + b.e)
scalarSub(a, b) == scalar(a.c - b.c, a.e - b.e)

\* The numeric kinds and the values of the TwoEntriesTests
ClampKinds == {"int", "float", "double"}
ClampWholes == {6, 7, 12, 13, 36, 46, 47, 52, 54}
ClampTinies(kind) == IF kind = "int" THEN {0} ELSE {0 - 1, 0, 1}
ClampBounds == {<<scalar(7, 0), scalar(52, 0)>>}
ClampEpsilons == {scalar(5, 0), scalar(30, 0)}

\* clamp: the value left in *value. The test at the maximum comes first.
clamp_value_MinimumFirst(value, min, max, epsilon) ==
    IF scalarLeq(value, scalarAdd(min, epsilon)) THEN min
    ELSE IF scalarLeq(scalarSub(max, epsilon), value) THEN max
    ELSE value
clamp_value(value, min, max, epsilon) ==
    IF scalarLeq(scalarSub(max, epsilon), value) THEN max
    ELSE IF scalarLeq(value, scalarAdd(min, epsilon)) THEN min
    ELSE value

\* A value, bounds and an epsilon of one numeric kind, before the call
InitMath ==
    /\ clampKind \in ClampKinds
    /\ clampValue \in {scalar(whole, tiny) : whole \in ClampWholes, tiny \in ClampTinies(clampKind)}
    /\ \E bounds \in ClampBounds : clampMin = bounds[1] /\ clampMax = bounds[2]
    /\ clampEpsilon \in ClampEpsilons
    /\ clampDone = FALSE
    /\ clampBefore = clampValue

clamp ==
    /\ UNCHANGED notMathVars
    /\ ~clampDone
    /\ clampBefore' = clampValue
    /\ clampValue' = clamp_value(clampValue, clampMin, clampMax, clampEpsilon)
    /\ clampDone' = TRUE
    /\ UNCHANGED <<clampKind, clampMin, clampMax, clampEpsilon>>

NextMath ==
    \/ clamp

\* clamp alone
InitClamp == InitMath /\ BodyIdle /\ AsmIdle /\ FemIdle /\ OdeIdle /\ ComponentIdle /\ ContactIdle /\ ParticleIdle /\ KeyboardIdle /\ ScaffoldIdle

SpecMath == InitClamp /\ [][NextMath]_vars


----------------------------------------------------------------------------
(* Properties of the pipeline *)

PipelineOps == {"beforeUpdate", "update", "afterUpdate", "applyCorrection"}

IsAssertion(result) ==
    result \in {"assertDofMismatch", "assertNoMass", "assertNoSpring",
                "assertNoState", "assertNoSolver"}

\* Every position and velocity entry of the state is finite
EntriesFinite(state) ==
    /\ \A k \in DOMAIN state.positions : state.positions[k][1] = "fin"
    /\ \A k \in DOMAIN state.velocities : state.velocities[k][1] = "fin"

\* The state with deltaVelocity * dt added to the positions and deltaVelocity
\* added to the velocities
PlusCorrection(state, args) ==
    [positions |-> [k \in DOMAIN state.positions |->
                        fadd(state.positions[k], fmul(args[2][k], args[1]))],
     velocities |-> [k \in DOMAIN state.velocities |->
                        fadd(state.velocities[k], args[2][k])]]

stateBuffers == <<heap, m_previousState, m_currentState, m_newState, m_finalState>>

\* C1: in a call of the pipeline the active flag goes from true to false only
\* in afterUpdate or applyCorrection, and then the current state the call
\* validated has a non-finite entry; no call of the pipeline sets it from
\* false to true.
C1_DeactivatedOnlyOnInvalidState ==
    [][lastOp'.op \in PipelineOps =>
        /\ (m_isActive /\ ~m_isActive') =>
             \/ /\ lastOp'.op = "afterUpdate"
                /\ ~EntriesFinite(heap[m_currentState])
             \/ /\ lastOp'.op = "applyCorrection"
                /\ ~EntriesFinite(PlusCorrection(heap[m_currentState], lastOp'.args))
        /\ ~m_isActive => ~m_isActive']_vars

\* C1 witness: afterUpdate has deactivated a body the solver was bound to
C1_Witness ==
    /\ lastOp.op = "afterUpdate"
    /\ lastOp.wasActive
    /\ ~m_isActive
    /\ m_odeSolver

\* C2: afterUpdate on an active body returns normally; when every entry of
\* the current state is finite the final state becomes equal to the current
\* state and the body stays active, otherwise current and final are reset to
\* the rest state and the body becomes inactive.
C2_AfterUpdateCommitsOrRecovers ==
    [][(lastOp'.op = "afterUpdate" /\ m_isActive) =>
        /\ lastOp'.result = "ok"
        /\ IF EntriesFinite(heap[m_currentState])
           THEN /\ heap'[m_finalState'] = heap[m_currentState]
                /\ heap'[m_currentState'] = heap[m_currentState]
                /\ m_isActive'
           ELSE /\ heap'[m_currentState'] = heap[m_initialState]
                /\ heap'[m_finalState'] = heap[m_initialState]
                /\ heap'[m_finalState'] # heap[m_currentState]
                /\ ~m_isActive']_vars

\* C2 witness: afterUpdate found a non-finite velocity and recovered
C2_Witness ==
    /\ lastOp.op = "afterUpdate"
    /\ lastOp.wasActive
    /\ ~m_isActive
    /\ heap[m_finalState] = heap[m_initialState]
    /\ heap[m_currentState] = heap[m_initialState]
    /\ m_odeSolver
    /\ m_currentState # "bufB"

\* C3: update on an active body with a solver: afterwards current is the
\* buffer that was new and holds what the solver wrote, previous is the
\* buffer that was current with its content unchanged, and new is the buffer
\* that was previous.
C3_UpdateSolvesThenSwaps ==
    [][(lastOp'.op = "update" /\ m_isActive /\ m_odeSolver) =>
        /\ lastOp'.result = "ok"
        /\ m_currentState' = m_newState
        /\ heap'[m_currentState'] =
              [positions |-> [heap[m_currentState].positions
                                 EXCEPT ![lastOp'.args[1]] = lastOp'.args[2][1]],
               velocities |-> [heap[m_currentState].velocities
                                 EXCEPT ![lastOp'.args[1]] = lastOp'.args[2][2]]]
        /\ m_previousState' = m_currentState
        /\ heap'[m_previousState'] = heap[m_currentState]
        /\ m_newState' = m_previousState]_vars

\* C3 witness: an update wrote a state that differs from the one it backed up
C3_Witness ==
    /\ lastOp.op = "update"
    /\ lastOp.result = "ok"
    /\ heap[m_currentState] # heap[m_previousState]

\* C4: applyCorrection on an active body returns normally; the current state
\* gets deltaVelocity*dt added to its positions and deltaVelocity to its
\* velocities; when the result has a non-finite entry the body is reset to
\* rest and deactivated as afterUpdate does.
C4_ApplyCorrectionAddsAndRevalidates ==
    [][(lastOp'.op = "applyCorrection" /\ m_isActive) =>
        LET c == PlusCorrection(heap[m_currentState], lastOp'.args) IN
        /\ lastOp'.result = "ok"
        /\ IF EntriesFinite(c)
           THEN /\ heap'[m_currentState'] = c
                /\ m_isActive'
                /\ heap'[m_finalState'] = heap[m_finalState]
           ELSE /\ heap'[m_currentState'] = heap[m_initialState]
                /\ heap'[m_previousState'] = heap[m_initialState]
                /\ heap'[m_finalState'] = heap[m_initialState]
                /\ ~m_isActive']_vars

\* C4 witness: a correction on a moving body was added and kept
C4_Witness ==
    /\ lastOp.op = "applyCorrection"
    /\ lastOp.wasActive
    /\ m_isActive
    /\ m_numDof > 0
    /\ heap[m_currentState].positions # heap[m_initialState].positions
    /\ heap[m_currentState].velocities # heap[m_initialState].velocities

\* C5: on an inactive body each call of the pipeline ends without evaluating
\* an assertion and leaves the states, the solver and the active flag as
\* they were.
C5_InactiveIsNoOp ==
    [][(lastOp'.op \in PipelineOps /\ ~m_isActive) =>
        /\ lastOp'.result = "noop"
        /\ UNCHANGED <<stateBuffers, m_initialState, m_odeSolver, m_isActive>>]_vars

\* C5 witness: beforeUpdate was a no-op on an inactive body whose set-up
\* would have failed an assertion
C5_Witness ==
    /\ lastOp.op = "beforeUpdate"
    /\ lastOp.result = "noop"
    /\ ~lastOp.wasActive
    /\ numSprings = 0

\* C6: beforeUpdate on an active body raises an assertion and leaves the
\* solver alone whenever 3*numMasses # numDof, or there is no mass, or no
\* spring, or numDof is 0; it sets the solver up exactly when all four
\* checks pass.
C6_BeforeUpdateAsserts ==
    [][(lastOp'.op = "beforeUpdate" /\ m_isActive) =>
        LET bad == \/ 3 * numMasses # m_numDof
                   \/ numMasses = 0
                   \/ numSprings = 0
                   \/ m_numDof = 0
        IN /\ bad => (IsAssertion(lastOp'.result) /\ m_odeSolver' = m_odeSolver)
           /\ ~bad => (lastOp'.result = "ok" /\ m_odeSolver')]_vars

\* C6 witness: beforeUpdate raised for a body with masses and a state but no
\* spring
C6_Witness ==
    /\ lastOp.op = "beforeUpdate"
    /\ lastOp.result = "assertNoSpring"
    /\ ~m_odeSolver

\* C7 as claimed: update before any beforeUpdate raises a fatal assertion
C7_UpdateBeforeBeforeUpdateAsserts ==
    (lastOp.op = "update" /\ ~everBeforeUpdate) => IsAssertion(lastOp.result)

\* C7 amended: update before any beforeUpdate raises a fatal assertion when
\* the body is active and is a silent no-op when it is inactive; in both
\* cases the state buffers are neither advanced nor swapped.
C7_ActiveUpdateBeforeBeforeUpdateAsserts ==
    [][(lastOp'.op = "update" /\ ~everBeforeUpdate) =>
        /\ m_isActive => IsAssertion(lastOp'.result)
        /\ ~m_isActive => lastOp'.result = "noop"
        /\ UNCHANGED <<stateBuffers, m_initialState>>]_vars

\* C7 witness: update raised on an active body that never saw beforeUpdate
C7_Witness ==
    /\ lastOp.op = "update"
    /\ lastOp.wasActive
    /\ ~everBeforeUpdate
    /\ lastOp.result = "assertNoSolver"

----------------------------------------------------------------------------
(* Properties of the assembly *)

boundaryIndices == {odeState.boundaryConditions[k] : k \in 1..Len(odeState.boundaryConditions)}

BoundaryRowAndColumn(A, i) ==
    /\ A[<<i, i>>] = 1000000000
    /\ \A j \in Dofs(NumDofPerNode * odeState.numNodes) :
          j # i => (A[<<i, j>>] = 0 /\ A[<<j, i>>] = 0)

\* C8: for every boundary-condition index i of the state, whatever was
\* computed satisfies F[i] = 0, M[i,i] = 1e9, D[i,i] = K[i,i] = 1e9 and the
\* rest of row i and column i of D and of K is 0.
C8_BoundaryConditionsApplied ==
    \A i \in boundaryIndices :
        /\ asmCall \in {"computeF", "computeFMDK"} => m_f[i] = 0
        /\ asmCall \in {"computeM", "computeFMDK"} => m_M[i] = 1000000000
        /\ asmCall \in {"computeD", "computeFMDK"} => BoundaryRowAndColumn(m_D, i)
        /\ asmCall \in {"computeK", "computeFMDK"} => BoundaryRowAndColumn(m_K, i)

\* C8 witness: computeD ran on a state with two boundary conditions on a
\* spring whose stiffness and damping fill rows and columns of D
C8_Witness ==
    /\ asmCall = "computeD"
    /\ Cardinality(boundaryIndices) = 2
    /\ Len(m_springList) > 0
    /\ m_springList[1].damping # 0
    /\ m_rayleighDamping.stiffnessCoefficient # 0
    /\ m_rayleighDamping.massCoefficient # 0
    /\ \E ij \in DOMAIN m_D : ij[1] # ij[2] /\ m_D[ij] # 0

\* C9: the force computeFMDK leaves in m_f equals the force computeF returns
\* for the same state
C9_ForcePathsAgree ==
    asmCall = "computeFMDK" => m_f = computeF_value(odeState)

\* The two paths agree when no spring has a damping of its own
C9_AgreeWithoutSpringDamping ==
    (asmCall = "computeFMDK" /\ \A k \in 1..Len(m_springList) : m_springList[k].damping = 0)
        => m_f = computeF_value(odeState)

----------------------------------------------------------------------------
(* Properties of the FEM element *)

NodeIdsInRange == \A k \in 1..Len(m_nodeIds) : m_nodeIds[k] < femNumNodes

isInitialized == m_x0 # <<>>

NodeIdsDistinct ==
    \A j, k \in 1..Len(m_nodeIds) : j # k => m_nodeIds[j] # m_nodeIds[k]

HasFiniteEntries(A) == \A k \in DOMAIN A : qIsFinite(A[k])

\* C11: a call of initialize on an element that already holds the cached
\* rest data of a successful initialize does not return normally.
C11_SecondInitializeAsserts ==
    [][(isInitialized /\ femCall'.op = "initialize") => femCall'.result # "ok"]_vars

\* C12: an initialized element never references the same node id twice.
C12_NodeIdsPairwiseDistinct == isInitialized => NodeIdsDistinct

\* C13: initialize on an element with a node id >= getNumNodes() of the
\* state does not return normally (with valid parameters it is the node id
\* assertion that fails), reads no node position from the state and leaves
\* m_x0, the shape functions and the cached matrices as they were.
C13_OutOfRangeNodeIdAsserts ==
    [][(femCall'.op = "initialize" /\ ~NodeIdsInRange) =>
        /\ femCall'.result # "ok"
        /\ FemElement_initialize(m_rho, m_E, m_nu) = "ok" => femCall'.result = "assertNodeId"
        /\ femReads' = {}
        /\ UNCHANGED femCache]_vars

\* C13 witness: initialize failed on the node id assertion with valid
\* parameters, nothing read and nothing cached
C13_Witness ==
    /\ femCall = [op |-> "initialize", result |-> "assertNodeId"]
    /\ \E k \in 1..Len(m_nodeIds) : m_nodeIds[k] = femNumNodes
    /\ FemElement_initialize(m_rho, m_E, m_nu) = "ok"
    /\ femReads = {}
    /\ ~isInitialized

\* The block of the element that holds node id `node`
blockOf(node) == CHOOSE b \in 0..(Len(m_nodeIds) - 1) : m_nodeIds[b + 1] = node

\* The entry j of a global vector after `local` was added at the element's
\* node blocks
PlusAtBlocks(global, local, j) ==
    IF j \div 3 \in nodeIdSet
    THEN qadd(global[j], local[3 * blockOf(j \div 3) + (j % 3)])
    ELSE global[j]

\* x_local - x0_local for the state a call was given
localDisplacement(positions) ==
    [i \in 0..11 |-> qsub(positions[3 * m_nodeIds[(i \div 3) + 1] + (i % 3)], m_x0[i])]

localPart(x) == [i \in 0..11 |-> x[3 * m_nodeIds[(i \div 3) + 1] + (i % 3)]]

PlusAtBlockPairs(global, local, ij) ==
    IF ij[1] \div 3 \in nodeIdSet /\ ij[2] \div 3 \in nodeIdSet
    THEN qadd(global[ij], local[<<3 * blockOf(ij[1] \div 3) + (ij[1] % 3),
                                  3 * blockOf(ij[2] \div 3) + (ij[2] % 3)>>])
    ELSE global[ij]

\* C16: addFMDK(state, F, M, D, K) changes F, M and K exactly as
\* addForce(state, F), addMass(state, M) and addStiffness(state, K) with scale
\* 1 do (on distinct node ids: M and K gain the cached m_M and m_K at the
\* pairs of node blocks), and leaves D unchanged, as addDamping does with any
\* scale.
C16_AddFMDKIsTheThreeCalls ==
    femCall.op = "addFMDK" =>
        /\ femOut.F = addForce_value(femOut.positions, m_KLocal, femOut.F0, 1)
        /\ femOut.M = addMass_value(femOut.M0, 1)
        /\ femOut.K = addStiffness_value(femOut.K0, 1)
        /\ femOut.D = femOut.D0
        /\ \A scale \in Scales : addDamping_value(femOut.D0, scale) = femOut.D
        /\ NodeIdsDistinct =>
            \A ij \in DOMAIN femOut.M0 :
                /\ femOut.M[ij] = PlusAtBlockPairs(femOut.M0, m_MLocal, ij)
                /\ femOut.K[ij] = PlusAtBlockPairs(femOut.K0, m_KLocal, ij)

\* C16 witness: addFMDK on a displaced state changed F, M and K at the
\* element's nodes and left D as it was
C16_Witness ==
    /\ femCall.op = "addFMDK"
    /\ HasFiniteEntries(m_KLocal)
    /\ femNumNodes = 5
    /\ m_nodeIds = <<0, 1, 2, 4>>
    /\ femOut.positions # femPositions
    /\ femOut.F # femOut.F0
    /\ femOut.M[<<0, 0>>] # femOut.M0[<<0, 0>>]
    /\ femOut.K[<<0, 12>>] # femOut.K0[<<0, 12>>]
    /\ femOut.K[<<0, 9>>] = femOut.K0[<<0, 9>>]
    /\ femOut.D = femOut.D0

\* A component h / 100 + u * 1e-11 lies in [0, 1] up to ScalarEpsilon
inUnitInterval(component) ==
    /\ (component.c > 0 \/ (component.c = 0 /\ component.e >= 0 - ScalarEpsilon))
    /\ (component.c < 100 \/ (component.c = 100 /\ component.e <= ScalarEpsilon))

\* The sum of the components is 1 within ScalarEpsilon
sumsToOne(naturalCoordinate) ==
    /\ coordinateSum(naturalCoordinate).c = 100
    /\ Abs(coordinateSum(naturalCoordinate).e) < ScalarEpsilon

\* C17: isValidCoordinate(naturalCoordinate) is true if and only if the vector
\* has four components, they sum to 1 within 1e-10, and every component lies
\* in [0, 1] up to that epsilon.
C17_ValidIffSizeSumAndRange ==
    femCall.op = "isValidCoordinate" =>
        (femOut.valid <=>
            /\ Len(femOut.naturalCoordinate) = NumTetrahedronNodes
            /\ sumsToOne(femOut.naturalCoordinate)
            /\ \A k \in 1..Len(femOut.naturalCoordinate) :
                   inUnitInterval(femOut.naturalCoordinate[k]))

\* The weighted sum of the four node positions, as <<a, b>> for a + b * 1e-11
interpolated(positions, naturalCoordinate, axis) ==
    <<qsum([k \in 0..3 |-> qmul(Q(naturalCoordinate[k + 1].c, 100),
                                positions[3 * m_nodeIds[k + 1] + axis])], 0, 3),
      qsum([k \in 0..3 |-> qmul(QInt(naturalCoordinate[k + 1].e),
                                positions[3 * m_nodeIds[k + 1] + axis])], 0, 3)>>

\* C18: computeCartesianCoordinate(state, naturalCoordinate) fails on its
\* assertion whenever isValidCoordinate(naturalCoordinate) is false, having
\* read no component of the coordinate by index and no position; otherwise it
\* returns the sum over the four nodes of naturalCoordinate(k) times the
\* position of node k in the given state.
C18_CartesianCoordinateAssertsOrInterpolates ==
    femCall.op = "computeCartesianCoordinate" =>
        IF isValidCoordinate(femOut.naturalCoordinate)
        THEN /\ femCall.result = "ok"
             /\ \A axis \in 0..2 :
                    femOut.value[axis] = interpolated(femOut.positions, femOut.naturalCoordinate, axis)
        ELSE /\ femCall.result = "assertValidCoordinate"
             /\ femOut.componentsRead = {}
             /\ femReads = {}
             /\ femOut.value = <<>>

\* C18 witness: a coordinate of four components that do not sum to 1 was
\* refused
C18_Witness ==
    /\ femCall = [op |-> "computeCartesianCoordinate", result |-> "assertValidCoordinate"]
    /\ Len(femOut.naturalCoordinate) = 4
    /\ ~sumsToOne(femOut.naturalCoordinate)
    /\ femOut.componentsRead = {}

\* The rest configuration is degenerate: its signed volume is not positive
isDegenerate == ~qlt(QInt(0), m_restVolume)

\* C19: initializing a tetrahedron whose rest configuration has a zero or a
\* negative signed volume logs a warning, completes without an assertion,
\* and leaves a usable element (finite mass and stiffness matrices).
C19_DegenerateElementWarnsAndStaysUsable ==
    (femCall.op = "initialize" /\ isInitialized /\ isDegenerate
        /\ initializeResult(m_rho, m_E, m_nu, m_nodeIds, femNumNodes) = "ok") =>
            /\ femCall.result = "ok"
            /\ femWarning
            /\ HasFiniteEntries(m_MLocal)
            /\ HasFiniteEntries(m_KLocal)

\* The value is within epsilon of a bound, or beyond it
nearMinimum(value) == scalarLeq(value, scalarAdd(clampMin, clampEpsilon))
nearMaximum(value) == scalarLeq(scalarSub(clampMax, clampEpsilon), value)

\* C20: clamp(&value, min, max, epsilon), for int, float and double: a value
\* with value >= max - epsilon becomes max, also when it is within epsilon of
\* min as well; any other value with value <= min + epsilon becomes min; a
\* value strictly between min + epsilon and max - epsilon is left unchanged.
C20_ClampSnapsWithinEpsilon ==
    clampDone =>
        /\ nearMaximum(clampBefore) => clampValue = clampMax
        /\ (nearMinimum(clampBefore) /\ ~nearMaximum(clampBefore)) => clampValue = clampMin
        /\ (~nearMinimum(clampBefore) /\ ~nearMaximum(clampBefore)) => clampValue = clampBefore

\* C20 witness: the value 36 with epsilon 30, within epsilon of both bounds,
\* became the maximum
C20_Witness ==
    /\ clampDone
    /\ clampBefore = scalar(36, 0)
    /\ clampEpsilon = scalar(30, 0)
    /\ nearMinimum(clampBefore) /\ nearMaximum(clampBefore)
    /\ clampValue = clampMax
    /\ clampMax = scalar(52, 0)

\* C24: right after a successful initialize the cached 12x12 mass matrix
\* has, for every pair of local nodes (r, c), the 3x3 block 2 * coef * I when
\* r = c and coef * I otherwise, with coef = massDensity * volume / 20; it is
\* symmetric and, per axis, its entries sum to massDensity * volume.
C24_MassMatrixBlocks ==
    isReady =>
        LET coef == qdiv(qmul(QInt(m_rho), getVolume(femPositions, m_nodeIds)), QInt(20)) IN
        /\ \A r \in 0..3 : \A c \in 0..3 : \A a \in 0..2 : \A b \in 0..2 :
              m_MLocal[<<3 * r + a, 3 * c + b>>] =
                  IF a # b THEN QInt(0)
                  ELSE IF r = c THEN qadd(coef, coef) ELSE coef
        /\ \A ij \in DOMAIN m_MLocal : m_MLocal[ij] = m_MLocal[<<ij[2], ij[1]>>]
        /\ \A a \in 0..2 :
              qsum([n \in 0..15 |-> m_MLocal[<<3 * (n \div 4) + a, 3 * (n % 4) + a>>]], 0, 15)
                  = qmul(QInt(m_rho), m_restVolume)

\* C24 witness: the unit tetrahedron of volume 1/6 and density 1234
C24_Witness ==
    /\ isReady
    /\ m_restVolume = Q(1, 6)
    /\ m_rho = 1234
    /\ m_MLocal[<<0, 0>>] = Q(617, 30)
    /\ m_MLocal[<<0, 3>>] = Q(617, 60)
    /\ m_MLocal[<<0, 1>>] = QInt(0)

\* The buffers setInitialState allocates for the previous, current and new
\* states
WorkingBuffers == {"bufA", "bufB", "bufC"}

\* C25: over any sequence of calls the previous, current and new state
\* handles refer to three pairwise distinct buffers, a permutation of the
\* three held before the first update, and the initial and final state
\* handles are never swapped.
C25_HandlesArePermutation ==
    /\ m_previousState # m_currentState
    /\ m_currentState # m_newState
    /\ m_previousState # m_newState
    /\ {m_previousState, m_currentState, m_newState} = WorkingBuffers
    /\ m_initialState = "bufInitial"
    /\ m_finalState = "bufFinal"

\* C25 witness: two updates have rotated the three handles twice
C25_Witness ==
    /\ lastOp.op = "update" /\ lastOp.result = "ok"
    /\ m_previousState = "bufC"
    /\ m_currentState = "bufA"
    /\ m_newState = "bufB"

\* Every position and velocity entry of a state is a finite number
AllFinite(state) ==
    /\ \A k \in DOMAIN state.positions : IsFinite(state.positions[k])
    /\ \A k \in DOMAIN state.velocities : IsFinite(state.velocities[k])

\* C26 as stated: the final state is always finite, and update and
\* applyCorrection never modify it.
C26_FinalStateFiniteAndUntouched ==
    /\ []AllFinite(heap[m_finalState])
    /\ [][lastOp'.op \in {"update", "applyCorrection"} =>
            heap'[m_finalState'] = heap[m_finalState]]_vars

\* C26, amended: the final state is always finite; update never modifies it;
\* applyCorrection leaves it alone unless the corrected state is not valid,
\* and then it deactivates the body and resets the final state to the initial
\* state.
C26_FinalStateFiniteAndResetOnly ==
    /\ []AllFinite(heap[m_finalState])
    /\ [][(lastOp'.op = "update" /\ nOps' # nOps) =>
            heap'[m_finalState'] = heap[m_finalState]]_vars
    /\ [][(lastOp'.op = "applyCorrection" /\ nOps' # nOps) =>
            \/ heap'[m_finalState'] = heap[m_finalState]
            \/ /\ m_isActive /\ ~m_isActive'
               /\ ~AllFinite(correctedState(heap[m_currentState], lastOp'.args[1], lastOp'.args[2]))
               /\ heap'[m_finalState'] = heap[m_initialState]]_vars

\* C26 witness: a correction made the state invalid; the body was
\* deactivated and its final state, committed earlier, is the initial state
\* again
C26_Witness ==
    /\ lastOp.op = "applyCorrection"
    /\ lastOp.wasActive
    /\ ~m_isActive
    /\ m_numDof > 0
    /\ \E k \in DOMAIN lastOp.args[2] : ~IsFinite(lastOp.args[2][k])
    /\ heap[m_finalState] = heap[m_initialState]
    /\ AllFinite(heap[m_finalState])


----------------------------------------------------------------------------
(* Math/OdeSolverRungeKutta4 and OdeSolverLinearRungeKutta4 on a MassPoint,
   as exercised by doSolveTest of OdeSolverRungeKutta4Tests.cpp.  The solver
   and the MassPoint equation are written from the specification (section on
   the ODE solver variants); the expected values are the test's own stage
   formulas.  Scalars are exact rationals. *)

OdeDofs == 0..2

OdeSolverKinds == {"OdeSolverRungeKutta4", "OdeSolverLinearRungeKutta4"}

\* The two bodies of doSolveTest: MassPoint m and MassPoint m(viscosity)
MassPoints == {"withoutViscosity", "withViscosity"}

OdeMasses == {1, 2}
OdeViscosities == {1, 8}
OdeDts == {Q(1, 2), QInt(1)}

MassPointState(p, v) == [positions |-> p, velocities |-> v]

qConstantVec(c) == [i \in OdeDofs |-> QInt(c)]

\* MassPoint::m_gravity
m_gravity == [i \in OdeDofs |-> QInt(Gravity[i + 1])]

\* The states doSolveTest starts from (default state; setLinSpaced(1, 3) with
\* setConstant(1)), and a body thrown against gravity
OdeStates ==
    { MassPointState(qConstantVec(0), qConstantVec(0)),
      MassPointState([i \in OdeDofs |-> QInt(i + 1)], qConstantVec(1)),
      MassPointState(qConstantVec(0), [i \in OdeDofs |-> IF i = 1 THEN QInt(5) ELSE QInt(0)]) }

\* MassPoint::computeF: gravity and viscosity forces on the point
MassPoint_computeF(state, mass, viscosity) ==
    Evaluated(qVecSub(qScaleV(m_gravity, QInt(mass)), qScaleV(state.velocities, QInt(viscosity))))

\* y' = f(t, y): (x, v)' = (v, M^-1 f)
odeDerivative(y, mass, viscosity) ==
    MassPointState(y.velocities, Evaluated(qScaleV(MassPoint_computeF(y, mass, viscosity), Q(1, mass))))

\* y + k * h
odeAdvance(y, k, h) ==
    MassPointState(Evaluated(qVecAdd(y.positions, qScaleV(k.positions, h))), Evaluated(qVecAdd(y.velocities, qScaleV(k.velocities, h))))

\* k1 + 2 k2 + 2 k3 + k4 on one of the two vectors of the stages
rk4Weights(k1, k2, k3, k4) ==
    Evaluated(qVecAdd(qVecAdd(k1, k4), qScaleV(qVecAdd(k2, k3), QInt(2))))

rk4Combine(dt, y, k1, k2, k3, k4) ==
    MassPointState(
        Evaluated(qVecAdd(y.positions, qScaleV(rk4Weights(k1.positions, k2.positions, k3.positions, k4.positions), qdiv(dt, QInt(6))))),
        Evaluated(qVecAdd(y.velocities, qScaleV(rk4Weights(k1.velocities, k2.velocities, k3.velocities, k4.velocities), qdiv(dt, QInt(6))))))

rk4Stage4(dt, y, k1, k2, k3, mass, viscosity) ==
    rk4Combine(dt, y, k1, k2, k3, odeDerivative(odeAdvance(y, k3, dt), mass, viscosity))

rk4Stage3(dt, y, k1, k2, mass, viscosity) ==
    rk4Stage4(dt, y, k1, k2, odeDerivative(odeAdvance(y, k2, qdiv(dt, QInt(2))), mass, viscosity), mass, viscosity)

rk4Stage2(dt, y, k1, mass, viscosity) ==
    rk4Stage3(dt, y, k1, odeDerivative(odeAdvance(y, k1, qdiv(dt, QInt(2))), mass, viscosity), mass, viscosity)

\* OdeSolverRungeKutta4::solve(dt, currentState, &newState): the new state
OdeSolverRungeKutta4_solve(dt, currentState, mass, viscosity) ==
    rk4Stage2(dt, currentState, odeDerivative(currentState, mass, viscosity), mass, viscosity)

\* OdeSolverLinearRungeKutta4::solve: the system matrix is assembled once and
\* reused; a MassPoint's mass does not depend on the state
OdeSolverLinearRungeKutta4_solve(dt, currentState, mass, viscosity) ==
    OdeSolverRungeKutta4_solve(dt, currentState, mass, viscosity)

viscosityOf_Exchanged(point) == IF point = "withViscosity" THEN 0 ELSE m_viscosity

\* MassPoint m (no viscosity) and MassPoint m(viscosity) of doSolveTest
viscosityOf(point) == IF point = "withViscosity" THEN m_viscosity ELSE 0

InitOde ==
    /\ odeSolverKind \in OdeSolverKinds
    /\ m_mass \in OdeMasses
    /\ m_viscosity \in OdeViscosities
    /\ odeDt \in OdeDts
    /\ odeCurrentState \in OdeStates
    /\ odeNewState = [p \in MassPoints |-> <<>>]
    /\ odeCall = "none"

\* T solver(&m); solver.solve(dt, currentState, &newState) on one of the bodies
solve(point) ==
    /\ odeNewState[point] = <<>>
    /\ odeNewState' = [odeNewState EXCEPT ![point] =
            IF odeSolverKind = "OdeSolverLinearRungeKutta4"
            THEN OdeSolverLinearRungeKutta4_solve(odeDt, odeCurrentState, m_mass, viscosityOf(point))
            ELSE OdeSolverRungeKutta4_solve(odeDt, odeCurrentState, m_mass, viscosityOf(point))]
    /\ odeCall' = point
    /\ UNCHANGED <<odeSolverKind, m_mass, m_viscosity, odeDt, odeCurrentState>>
    /\ UNCHANGED notOdeVars

solveWithoutViscosity == solve("withoutViscosity")

solveWithViscosity == solve("withViscosity")

NextOde == solveWithoutViscosity \/ solveWithViscosity

InitSolver == InitOde /\ BodyIdle /\ AsmIdle /\ FemIdle /\ MathIdle /\ ComponentIdle /\ ContactIdle /\ ParticleIdle /\ KeyboardIdle /\ ScaffoldIdle

SpecOde == InitSolver /\ [][NextOde]_vars


\* The State struct of doSolveTest
State(p, v) == [position |-> p, velocity |-> v]

yn_plus_1_of_Unweighted(dt, yn, k1, k2, k3, k4) ==
    State(Evaluated(qVecAdd(yn.position, qScaleV(qVecAdd(qVecAdd(k1.position, k4.position), qVecAdd(k2.position, k3.position)), qdiv(dt, QInt(6))))),
          Evaluated(qVecAdd(yn.velocity, qScaleV(qVecAdd(qVecAdd(k1.velocity, k4.velocity), qVecAdd(k2.velocity, k3.velocity)), qdiv(dt, QInt(6))))))

\* yn_plus_1 of doSolveTest, from the four stages the test writes out
yn_plus_1_of(dt, yn, k1, k2, k3, k4) ==
    State(Evaluated(qVecAdd(yn.position, qScaleV(qVecAdd(qVecAdd(k1.position, k4.position), qScaleV(qVecAdd(k2.position, k3.position), QInt(2))), qdiv(dt, QInt(6))))),
          Evaluated(qVecAdd(yn.velocity, qScaleV(qVecAdd(qVecAdd(k1.velocity, k4.velocity), qScaleV(qVecAdd(k2.velocity, k3.velocity), QInt(2))), qdiv(dt, QInt(6))))))

\* k.velocity of the test with viscosity c: m_gravity - c * v / m_mass
dampedAcceleration(v, c, mass) ==
    Evaluated(qVecSub(m_gravity, qScaleV(qScaleV(v, QInt(c)), Q(1, mass))))

\* The stage of the test evaluated at velocity yn.velocity + k.velocity * h
testStage(yn, k, h, c, mass) ==
    LET v == Evaluated(qVecAdd(yn.velocity, qScaleV(k.velocity, h)))
    IN State(v, dampedAcceleration(v, c, mass))

\* doSolveTest, "Test Runge Kutta 4 algorithm itself (without viscosity)"
yn_plus_1_WithoutViscosity(dt, yn) ==
    LET k1 == State(yn.velocity, m_gravity)
        k2 == State(Evaluated(qVecAdd(yn.velocity, qScaleV(k1.velocity, qdiv(dt, QInt(2))))), m_gravity)
        k3 == State(Evaluated(qVecAdd(yn.velocity, qScaleV(k2.velocity, qdiv(dt, QInt(2))))), m_gravity)
        k4 == State(Evaluated(qVecAdd(yn.velocity, qScaleV(k3.velocity, dt))), m_gravity)
    IN yn_plus_1_of(dt, yn, k1, k2, k3, k4)

\* doSolveTest, "Test Runge Kutta 4 algorithm itself (with viscosity)"
yn_plus_1_WithViscosity(dt, yn, c, mass) ==
    LET k1 == State(yn.velocity, dampedAcceleration(yn.velocity, c, mass))
        k2 == testStage(yn, k1, qdiv(dt, QInt(2)), c, mass)
        k3 == testStage(yn, k2, qdiv(dt, QInt(2)), c, mass)
        k4 == testStage(yn, k3, dt, c, mass)
    IN yn_plus_1_of(dt, yn, k1, k2, k3, k4)

expectedNewState(point) ==
    LET yn == State(odeCurrentState.positions, odeCurrentState.velocities)
        e == IF point = "withViscosity"
             THEN yn_plus_1_WithViscosity(odeDt, yn, m_viscosity, m_mass)
             ELSE yn_plus_1_WithoutViscosity(odeDt, yn)
    IN MassPointState(e.position, e.velocity)

\* C21: for both Runge-Kutta 4 solver types, solve(dt, currentState, &newState)
\* writes y(n) + dt/6 (k1 + 2 k2 + 2 k3 + k4) with the four stages of
\* f(x, v) = (v, acceleration) into newState and leaves currentState unchanged
C21_RungeKutta4Step ==
    /\ [](\A point \in MassPoints : odeNewState[point] # <<>> => odeNewState[point] = expectedNewState(point))
    /\ [][odeCurrentState' = odeCurrentState]_vars

\* Both bodies solved from the lin-spaced state of the test, by the linear solver
C21_Witness ==
    /\ odeSolverKind = "OdeSolverLinearRungeKutta4"
    /\ odeCurrentState.velocities = qConstantVec(1)
    /\ odeDt = Q(1, 2)
    /\ m_mass = 2
    /\ m_viscosity = 1
    /\ odeNewState["withViscosity"] # <<>>
    /\ odeNewState["withoutViscosity"] # <<>>
    /\ odeNewState["withoutViscosity"].velocities = [i \in OdeDofs |-> IF i = 1 THEN QInt(0 - 4) ELSE QInt(1)]
    /\ odeNewState["withViscosity"] # odeNewState["withoutViscosity"]


\* newState.getPositions() - currentState.getPositions(), squared norm
squaredDisplacement(point) ==
    LET delta == Evaluated(qVecSub(odeNewState[point].positions, odeCurrentState.positions))
    IN qsum([i \in OdeDofs |-> qmul(delta[i], delta[i])], 0, 2)

BothSolved == \A point \in MassPoints : odeNewState[point] # <<>>

AtRest == odeCurrentState.velocities = qConstantVec(0)

\* C22 as stated: whatever the common state, mass, dt and positive viscosity,
\* the damped body's one-step displacement is strictly the smaller one
C22_DampedDisplacementSmaller ==
    BothSolved => qlt(squaredDisplacement("withViscosity"), squaredDisplacement("withoutViscosity"))

\* C22 narrowed to the case of the test: both bodies start at rest and
\* viscosity * dt < 4 * mass
C22_DampedDisplacementSmallerFromRest ==
    (BothSolved /\ AtRest /\ qlt(qmul(QInt(m_viscosity), odeDt), QInt(4 * m_mass)))
        => qlt(squaredDisplacement("withViscosity"), squaredDisplacement("withoutViscosity"))

\* From rest, mass 1, viscosity 1, dt 1: 5 * 5 (undamped) against 15/4 * 15/4
C22_Witness ==
    /\ BothSolved
    /\ AtRest
    /\ m_mass = 1
    /\ m_viscosity = 1
    /\ odeDt = QInt(1)
    /\ squaredDisplacement("withoutViscosity") = QInt(25)
    /\ squaredDisplacement("withViscosity") = Q(225, 16)


----------------------------------------------------------------------------
(* Framework/Component.h: the lifecycle of one Component.  A failed
   SURGSIM_ASSERT throws and leaves the object as it was; componentCalls
   records every call with its outcome. *)

MaxCalls == 4

Runtimes == {"nullptr", "runtime"}

ComponentCall(op, runtime, result) == [op |-> op, runtime |-> runtime, result |-> result]

\* The outcome of a call that returned
Returned(b) == IF b THEN "true" ELSE "false"

\* Component::Component(name)
InitComponent ==
    /\ m_didInit = FALSE
    /\ m_didWakeUp = FALSE
    /\ m_runtime = "nullptr"
    /\ componentCalls = <<>>

Component_initialize_SetOnSuccess(runtime, doInitialize) ==
    /\ Len(componentCalls) < MaxCalls
    /\ IF m_didInit \/ runtime = "nullptr"
       THEN /\ componentCalls' = Append(componentCalls, ComponentCall("initialize", runtime, "asserted"))
            /\ UNCHANGED <<m_didInit, m_runtime>>
       ELSE /\ m_runtime' = runtime
            /\ m_didInit' = doInitialize
            /\ componentCalls' = Append(componentCalls, ComponentCall("initialize", runtime, Returned(doInitialize)))
    /\ UNCHANGED m_didWakeUp
    /\ UNCHANGED notComponentVars

\* bool Component::initialize(std::shared_ptr<Runtime> runtime), with the value
\* the component's doInitialize() returns
Component_initialize(runtime, doInitialize) ==
    /\ Len(componentCalls) < MaxCalls
    /\ IF m_didInit \/ runtime = "nullptr"
       THEN /\ componentCalls' = Append(componentCalls, ComponentCall("initialize", runtime, "asserted"))
            /\ UNCHANGED <<m_didInit, m_runtime>>
       ELSE /\ m_runtime' = runtime
            /\ m_didInit' = TRUE
            /\ componentCalls' = Append(componentCalls, ComponentCall("initialize", runtime, Returned(doInitialize)))
    /\ UNCHANGED m_didWakeUp
    /\ UNCHANGED notComponentVars

\* bool Component::wakeUp(), with the value the component's doWakeUp() returns
Component_wakeUp(doWakeUp) ==
    /\ Len(componentCalls) < MaxCalls
    /\ IF m_didWakeUp
       THEN /\ componentCalls' = Append(componentCalls, ComponentCall("wakeUp", "nullptr", "asserted"))
            /\ UNCHANGED m_didWakeUp
       ELSE /\ m_didWakeUp' = TRUE
            /\ componentCalls' = Append(componentCalls, ComponentCall("wakeUp", "nullptr", Returned(doWakeUp)))
    /\ UNCHANGED <<m_didInit, m_runtime>>
    /\ UNCHANGED notComponentVars

callInitialize == \E runtime \in Runtimes, doInitialize \in BOOLEAN : Component_initialize(runtime, doInitialize)

callWakeUp == \E doWakeUp \in BOOLEAN : Component_wakeUp(doWakeUp)

NextComponent == callInitialize \/ callWakeUp

InitLifecycle == InitComponent /\ BodyIdle /\ AsmIdle /\ FemIdle /\ MathIdle /\ OdeIdle /\ ContactIdle /\ ParticleIdle /\ KeyboardIdle /\ ScaffoldIdle

SpecComponent == InitLifecycle /\ [][NextComponent]_vars

\* C23: once a call of initialize(runtime) has passed its entry checks, every
\* later call of initialize asserts, whatever doInitialize() returned; once
\* wakeUp() has been called, every later call asserts, whatever doWakeUp()
\* returned
C23_LifecycleAtMostOnce ==
    \A i \in DOMAIN componentCalls : \A j \in DOMAIN componentCalls :
        (i < j /\ componentCalls[i].op = componentCalls[j].op /\ componentCalls[i].result # "asserted")
            => componentCalls[j].result = "asserted"

\* initialize(nullptr) asserted, initialize(runtime) returned false, the next
\* initialize(runtime) asserted; wakeUp returned false
C23_Witness ==
    /\ Len(componentCalls) = 4
    /\ componentCalls[1] = ComponentCall("initialize", "nullptr", "asserted")
    /\ componentCalls[2] = ComponentCall("initialize", "runtime", "false")
    /\ componentCalls[3] = ComponentCall("initialize", "runtime", "asserted")
    /\ componentCalls[4] = ComponentCall("wakeUp", "nullptr", "false")
    /\ m_didInit
    /\ m_didWakeUp


----------------------------------------------------------------------------
(* Collision/TriangleMeshTriangleMeshDcdContact::doCalculateContact: the two
   nested loops over the triangles of mesh A and mesh B.  The geometry is
   abstracted: whether a normal is zero and whether two triangles intersect
   are choices.  Each mesh is a strip, triangle t having the vertex ids
   t, t + 1, t + 2 of its own vertex list.  contactRead records the last
   read of a triangle: which list was indexed, with which index, and in which
   mesh's vertex list the ids were looked up. *)

MaxTriangles == 2

getNumVertices(numTriangles) == IF numTriangles = 0 THEN 0 ELSE numTriangles + 2

verticesId(t) == <<t, t + 1, t + 2>>

TriangleRead(i, j, triangleMesh, triangleIndex, vertexMesh) == [i |-> i, j |-> j, triangleMesh |-> triangleMesh, triangleIndex |-> triangleIndex, vertexMesh |-> vertexMesh]

getNumTrianglesOf(mesh) == IF mesh = "meshA" THEN meshANumTriangles ELSE meshBNumTriangles

\* A read stays inside the two vectors it indexes: the triangle list of
\* triangleMesh and the vertex list of vertexMesh
IsInRange(read) ==
    /\ read.triangleIndex < getNumTrianglesOf(read.triangleMesh)
    /\ \A k \in 1..3 : verticesId(read.triangleIndex)[k] < getNumVertices(getNumTrianglesOf(read.vertexMesh))

\* lines 165-167: meshA->getVertexPosition(meshA->getTriangle(i).verticesId[..])
readTriangleA(i) == TriangleRead(i, 0, "meshA", i, "meshA")

\* lines 178-180: meshA->getVertexPosition(meshB->getTriangle(i).verticesId[..])
readTriangleB(i, j) == TriangleRead(i, j, "meshB", i, "meshA")

InitContact ==
    /\ meshANumTriangles \in 0..MaxTriangles
    /\ meshBNumTriangles \in 0..MaxTriangles
    /\ loopI = 0
    /\ loopJ = 0
    /\ contactPc = "outer"
    /\ contactRead = <<>>
    /\ numContacts = 0

\* for (i ...) { triangleA0..2; normalA; if (normalA.isZero()) continue;
outerTriangle(isZero) ==
    /\ contactPc = "outer"
    /\ loopI < meshANumTriangles
    /\ contactRead' = readTriangleA(loopI)
    /\ IF isZero
       THEN loopI' = loopI + 1 /\ UNCHANGED <<loopJ, contactPc>>
       ELSE loopJ' = 0 /\ contactPc' = "inner" /\ UNCHANGED loopI
    /\ UNCHANGED <<meshANumTriangles, meshBNumTriangles, numContacts>>
    /\ UNCHANGED notContactVars

\* for (j ...) { triangleB0..2; normalB; if (normalB.isZero()) continue;
\*   if (calculateContactTriangleTriangle(...)) pair->addContact(...) }
\* A read outside a vector is undefined: the call may end there, or go on with
\* whatever it read
innerTriangle(isZero, intersect, survives) ==
    /\ contactPc = "inner"
    /\ loopJ < meshBNumTriangles
    /\ contactRead' = readTriangleB(loopI, loopJ)
    /\ IF ~IsInRange(readTriangleB(loopI, loopJ)) /\ ~survives
       THEN contactPc' = "crashed" /\ UNCHANGED <<loopJ, numContacts>>
       ELSE /\ loopJ' = loopJ + 1
            /\ numContacts' = IF ~isZero /\ intersect THEN numContacts + 1 ELSE numContacts
            /\ UNCHANGED contactPc
    /\ UNCHANGED <<meshANumTriangles, meshBNumTriangles, loopI>>
    /\ UNCHANGED notContactVars

\* j == meshB->getNumTriangles(): ++i
innerDone ==
    /\ contactPc = "inner"
    /\ loopJ >= meshBNumTriangles
    /\ loopI' = loopI + 1
    /\ contactPc' = "outer"
    /\ UNCHANGED <<meshANumTriangles, meshBNumTriangles, loopJ, contactRead, numContacts>>
    /\ UNCHANGED notContactVars

\* i == meshA->getNumTriangles(): return
outerDone ==
    /\ contactPc = "outer"
    /\ loopI >= meshANumTriangles
    /\ contactPc' = "done"
    /\ UNCHANGED <<meshANumTriangles, meshBNumTriangles, loopI, loopJ, contactRead, numContacts>>
    /\ UNCHANGED notContactVars

stepOuterTriangle == \E isZero \in BOOLEAN : outerTriangle(isZero)

stepInnerTriangle == \E isZero \in BOOLEAN, intersect \in BOOLEAN, survives \in BOOLEAN : innerTriangle(isZero, intersect, survives)

NextContact == stepOuterTriangle \/ stepInnerTriangle \/ innerDone \/ outerDone

InitCalculateContact == InitContact /\ BodyIdle /\ AsmIdle /\ FemIdle /\ MathIdle /\ OdeIdle /\ ComponentIdle /\ ParticleIdle /\ KeyboardIdle /\ ScaffoldIdle

SpecContact == InitCalculateContact /\ [][NextContact]_vars

\* C27: every read of a triangle of mesh B uses the inner loop's index j, which
\* is below meshB.getNumTriangles(), and looks the triangle's vertex ids up in
\* mesh B's own vertex list, so that triangle i of A is tested against
\* triangle j of B
C27_MeshBReadsInRange ==
    (contactRead # <<>> /\ contactRead.triangleMesh = "meshB")
        => /\ contactRead.triangleIndex = contactRead.j
           /\ contactRead.triangleIndex < meshBNumTriangles
           /\ contactRead.vertexMesh = contactRead.triangleMesh

\* What the loops do guarantee: mesh A's own triangles are read in range
C27_MeshAReadsInRange ==
    (contactRead # <<>> /\ contactRead.triangleMesh = "meshA") => IsInRange(contactRead)


----------------------------------------------------------------------------
(* Particles/ParticleSystemRepresentation: the particle list and its maximum.
   A particle is its remaining lifetime; position and velocity play no part
   in the operations below.  doUpdate() is the subclass hook: only the value
   it returns is used here. *)

MaxParticles == 2
MaxParticleCalls == 4

Lifetimes == {0, 1, 2}
TimeSteps == {0, 1}

ParticleCall(op, arg, result) == [op |-> op, arg |-> arg, result |-> result]

\* ParticleSystemRepresentation::ParticleSystemRepresentation(name)
InitParticles ==
    /\ m_maxParticles = 0
    /\ m_particles = <<>>
    /\ particleCall = <<>>
    /\ numParticleCalls = 0

\* void setMaxParticles(size_t maxParticles): reserve() never removes elements
setMaxParticles(maxParticles) ==
    /\ numParticleCalls < MaxParticleCalls
    /\ m_maxParticles' = maxParticles
    /\ particleCall' = ParticleCall("setMaxParticles", maxParticles, "void")
    /\ numParticleCalls' = numParticleCalls + 1
    /\ UNCHANGED m_particles
    /\ UNCHANGED notParticleVars

addParticleResult_Inclusive(particles, maxParticles) == Len(particles) <= maxParticles

\* addParticle: particles.size() < m_maxParticles
addParticleResult(particles, maxParticles) == Len(particles) < maxParticles

\* bool addParticle(position, velocity, lifetime)
addParticle(lifetime) ==
    /\ numParticleCalls < MaxParticleCalls
    /\ m_particles' = IF addParticleResult(m_particles, m_maxParticles) THEN Append(m_particles, lifetime) ELSE m_particles
    /\ particleCall' = ParticleCall("addParticle", lifetime, Returned(addParticleResult(m_particles, m_maxParticles)))
    /\ numParticleCalls' = numParticleCalls + 1
    /\ UNCHANGED m_maxParticles
    /\ UNCHANGED notParticleVars

isDead(lifetime) == lifetime <= 0

\* update: lifetime -= dt for every particle, then erase(remove_if(isDead))
agedParticles(particles, dt) ==
    LET aged == [k \in DOMAIN particles |-> particles[k] - dt]
        alive(lifetime) == ~isDead(lifetime)
    IN SelectSeq(aged, alive)

\* void update(double dt), with the value doUpdate(dt) returns
ParticleSystemRepresentation_update(dt, doUpdate) ==
    /\ numParticleCalls < MaxParticleCalls
    /\ m_particles' = agedParticles(m_particles, dt)
    /\ particleCall' = ParticleCall("update", dt, IF doUpdate THEN "void" ELSE "warning")
    /\ numParticleCalls' = numParticleCalls + 1
    /\ UNCHANGED m_maxParticles
    /\ UNCHANGED notParticleVars

callSetMaxParticles == \E maxParticles \in 0..MaxParticles : setMaxParticles(maxParticles)

callAddParticle == \E lifetime \in Lifetimes : addParticle(lifetime)

callUpdate == \E dt \in TimeSteps, doUpdate \in BOOLEAN : ParticleSystemRepresentation_update(dt, doUpdate)

NextParticles == callSetMaxParticles \/ callAddParticle \/ callUpdate

InitParticleSystem == InitParticles /\ BodyIdle /\ AsmIdle /\ FemIdle /\ MathIdle /\ OdeIdle /\ ComponentIdle /\ ContactIdle /\ KeyboardIdle /\ ScaffoldIdle

SpecParticles == InitParticleSystem /\ [][NextParticles]_vars

\* C28 as stated: after any sequence of setMaxParticles, addParticle and update
\* calls the number of stored particles never exceeds getMaxParticles()
C28_NeverAboveMax == Len(m_particles) <= m_maxParticles

\* C28 narrowed: addParticle appends and returns true only while the count is
\* below the maximum and otherwise returns false leaving the list unchanged,
\* update never adds a particle, and the count is above the maximum after a
\* call only if it was already before it or the call is a setMaxParticles
\* with a value below the count
C28_AboveMaxOnlyByLoweringMax ==
    [][/\ particleCall'.op = "addParticle" =>
            IF Len(m_particles) < m_maxParticles
            THEN particleCall'.result = "true" /\ m_particles' = Append(m_particles, particleCall'.arg)
            ELSE particleCall'.result = "false" /\ m_particles' = m_particles
       /\ particleCall'.op = "update" => Len(m_particles') <= Len(m_particles)
       /\ Len(m_particles') > m_maxParticles' =>
            \/ Len(m_particles) > m_maxParticles
            \/ particleCall'.op = "setMaxParticles" /\ particleCall'.arg < Len(m_particles)]_vars

\* A list already at its maximum of 1 refuses another particle
C28_Witness ==
    /\ m_maxParticles = 1
    /\ m_particles = <<1>>
    /\ particleCall = ParticleCall("addParticle", 2, "false")


----------------------------------------------------------------------------
(* Blocks/KeyboardTogglesGraphicsBehavior: the registry of components per key
   and the update that toggles them.  keyInputs records what the input
   component's data group held in each update: a key code, or "noEntry" when
   it carried no "key" entry. *)

MaxUpdates == 3
MaxRegistrations == 2

KeyCodes == {"NONE", "KEY_A", "KEY_B"}
KeyInputs == KeyCodes \cup {"noEntry"}
GraphicsComponents == {"component1", "component2"}

\* KeyboardTogglesGraphicsBehavior::KeyboardTogglesGraphicsBehavior(name);
\* the components start active or not
InitKeyboard ==
    /\ m_registry = [key \in KeyCodes |-> {}]
    /\ m_keyPressedLastUpdate = FALSE
    /\ componentActive \in [GraphicsComponents -> BOOLEAN]
    /\ keyInputs = <<>>
    /\ numRegistered = 0

\* void registerKey(KeyCode key, std::shared_ptr<Component> component)
registerKey(key, component) ==
    /\ numRegistered < MaxRegistrations
    /\ m_registry' = [m_registry EXCEPT ![key] = @ \cup {component}]
    /\ numRegistered' = numRegistered + 1
    /\ UNCHANGED <<m_keyPressedLastUpdate, componentActive, keyInputs>>
    /\ UNCHANGED notKeyboardVars

keyPressedAfter_Cleared(input, pressed) == input \notin {"noEntry", "NONE"}

\* update: m_keyPressedLastUpdate after the call; it is written only inside
\* if (dataGroup.integers().get("key", &key))
keyPressedAfter(input, pressed) == IF input = "noEntry" THEN pressed ELSE input # "NONE"

\* update: the components whose active flag is inverted (m_registry.find(key)
\* finds a key once registerKey has created its entry)
toggled(input, registry, pressed) ==
    IF input # "noEntry" /\ registry[input] # {} /\ ~pressed THEN registry[input] ELSE {}

\* void update(double dt), with the data the input component delivers
KeyboardTogglesGraphicsBehavior_update(input) ==
    /\ Len(keyInputs) < MaxUpdates
    /\ componentActive' = [c \in GraphicsComponents |->
            IF c \in toggled(input, m_registry, m_keyPressedLastUpdate) THEN ~componentActive[c] ELSE componentActive[c]]
    /\ m_keyPressedLastUpdate' = keyPressedAfter(input, m_keyPressedLastUpdate)
    /\ keyInputs' = Append(keyInputs, input)
    /\ UNCHANGED <<m_registry, numRegistered>>
    /\ UNCHANGED notKeyboardVars

callRegisterKey == \E key \in KeyCodes, component \in GraphicsComponents : registerKey(key, component)

callKeyboardUpdate == \E input \in KeyInputs : KeyboardTogglesGraphicsBehavior_update(input)

NextKeyboard == callRegisterKey \/ callKeyboardUpdate

InitBehavior == InitKeyboard /\ BodyIdle /\ AsmIdle /\ FemIdle /\ MathIdle /\ OdeIdle /\ ComponentIdle /\ ContactIdle /\ ParticleIdle /\ ScaffoldIdle

SpecKeyboard == InitBehavior /\ [][NextKeyboard]_vars

\* The key entry of the most recent update that carried one, "NONE" if none did
RECURSIVE lastKeyEntry(_)
lastKeyEntry(inputs) ==
    IF inputs = <<>> THEN "NONE"
    ELSE IF inputs[Len(inputs)] # "noEntry" THEN inputs[Len(inputs)]
    ELSE lastKeyEntry(SubSeq(inputs, 1, Len(inputs) - 1))

\* C29: in an update, the components registered for key k have their active
\* flag inverted if and only if the input reports key k in that update and
\* the most recent earlier update that carried a key entry reported
\* KeyCode::NONE (or there was none); no other component changes
C29_ToggleOncePerKeyPress ==
    [][keyInputs' # keyInputs =>
        \A c \in GraphicsComponents :
            (componentActive'[c] # componentActive[c])
                <=> LET input == keyInputs'[Len(keyInputs')]
                    IN /\ input # "noEntry"
                       /\ c \in m_registry[input]
                       /\ lastKeyEntry(keyInputs) = "NONE"]_vars

\* KEY_A pressed, held through an update without a key entry and one with it:
\* component1 was toggled once
C29_Witness ==
    /\ keyInputs = <<"KEY_A", "noEntry", "KEY_A">>
    /\ "component1" \in m_registry["KEY_A"]
    /\ m_registry["KEY_A"] = {"component1"}
    /\ m_registry["KEY_B"] = {"component2"}
    /\ m_keyPressedLastUpdate
    /\ ~componentActive["component1"]
    /\ componentActive["component2"]


----------------------------------------------------------------------------
(* Devices/TrackIR/linux/TrackIRScaffold: client threads calling
   registerDevice, unregisterDevice, setPositionScale and setOrientationScale
   on the shared scaffold, and the per-device thread running runInputFrame.
   Every lock acquisition, the wait inside thread->stop() and the release of
   each lock_guard is a step of its own.  TrackIRThread is not part of the
   sources: its loop reads the stop request, runs one runInputFrame and
   repeats; stop() requests the stop and joins. *)

MaxScaffoldCalls == 3

Clients == {"client1", "client2"}
DeviceThread == "deviceThread"
Mutexes == {"stateMutex", "parametersMutex"}
ScaffoldOps == {"registerDevice", "unregisterDevice", "setPositionScale", "setOrientationScale"}
TheDevice == "device"

\* TrackIRScaffold::TrackIRScaffold, StateData::StateData
InitScaffold ==
    /\ mutexOwner = [m \in Mutexes |-> "free"]
    /\ clientPc = [c \in Clients |-> "idle"]
    /\ clientOp = [c \in Clients |-> "none"]
    /\ isApiInitialized = FALSE
    /\ activeDeviceList = {}
    /\ m_thread = "none"
    /\ devicePc = "none"
    /\ numScaffoldCalls = 0

\* A client thread enters one of the four operations
callScaffold(c, op) ==
    /\ clientPc[c] = "idle"
    /\ numScaffoldCalls < MaxScaffoldCalls
    /\ numScaffoldCalls' = numScaffoldCalls + 1
    /\ clientOp' = [clientOp EXCEPT ![c] = op]
    /\ clientPc' = [clientPc EXCEPT ![c] = "lockState"]
    /\ UNCHANGED <<mutexOwner, isApiInitialized, activeDeviceList, m_thread, devicePc>>
    /\ UNCHANGED notScaffoldVars

\* boost::lock_guard<boost::mutex> lock(m_state->mutex), lines 154, 201, 226, 239
lockStateMutex(c) ==
    /\ clientPc[c] = "lockState"
    /\ mutexOwner["stateMutex"] = "free"
    /\ mutexOwner' = [mutexOwner EXCEPT !["stateMutex"] = c]
    /\ clientPc' = [clientPc EXCEPT ![c] =
            IF clientOp[c] = "registerDevice" THEN "register"
            ELSE IF clientOp[c] = "unregisterDevice" THEN "unregister" ELSE "find"]
    /\ UNCHANGED <<clientOp, isApiInitialized, activeDeviceList, m_thread, devicePc, numScaffoldCalls>>
    /\ UNCHANGED notScaffoldVars

\* registerDevice under the state mutex: initializeSdk, the uniqueness
\* assertions (a failed one throws and unwinds to the release of the lock),
\* createPerDeviceThread, emplace_back
registerDevice(c, sdkRuns) ==
    /\ clientPc[c] = "register"
    /\ isApiInitialized' = (isApiInitialized \/ sdkRuns)
    /\ IF isApiInitialized' /\ activeDeviceList = {}
       THEN /\ activeDeviceList' = {TheDevice}
            /\ m_thread' = "running"
            /\ devicePc' = "checkStop"
       ELSE UNCHANGED <<activeDeviceList, m_thread, devicePc>>
    /\ clientPc' = [clientPc EXCEPT ![c] = "unlockState"]
    /\ UNCHANGED <<mutexOwner, clientOp, numScaffoldCalls>>
    /\ UNCHANGED notScaffoldVars

\* unregisterDevice under the state mutex, up to thread->stop() of
\* destroyPerDeviceThread: the stop is requested
unregisterDevice(c) ==
    /\ clientPc[c] = "unregister"
    /\ IF TheDevice \in activeDeviceList
       THEN /\ m_thread' = "stopRequested"
            /\ clientPc' = [clientPc EXCEPT ![c] = "joinThread"]
       ELSE /\ UNCHANGED m_thread
            /\ clientPc' = [clientPc EXCEPT ![c] = "unlockState"]
    /\ UNCHANGED <<mutexOwner, clientOp, isApiInitialized, activeDeviceList, devicePc, numScaffoldCalls>>
    /\ UNCHANGED notScaffoldVars

\* thread->stop() returns once the device thread has ended; thread.reset();
\* activeDeviceList.erase(matching)
joinDeviceThread(c) ==
    /\ clientPc[c] = "joinThread"
    /\ m_thread = "finished"
    /\ m_thread' = "none"
    /\ devicePc' = "none"
    /\ activeDeviceList' = {}
    /\ clientPc' = [clientPc EXCEPT ![c] = "unlockState"]
    /\ UNCHANGED <<mutexOwner, clientOp, isApiInitialized, numScaffoldCalls>>
    /\ UNCHANGED notScaffoldVars

\* setPositionScale / setOrientationScale: find_if on activeDeviceList
findDevice(c) ==
    /\ clientPc[c] = "find"
    /\ clientPc' = [clientPc EXCEPT ![c] = IF TheDevice \in activeDeviceList THEN "lockParameters" ELSE "unlockState"]
    /\ UNCHANGED <<mutexOwner, clientOp, isApiInitialized, activeDeviceList, m_thread, devicePc, numScaffoldCalls>>
    /\ UNCHANGED notScaffoldVars

\* boost::lock_guard<boost::mutex> lock((*matching)->m_parametersMutex), lines 232, 245
lockParametersMutex(c) ==
    /\ clientPc[c] = "lockParameters"
    /\ mutexOwner["parametersMutex"] = "free"
    /\ mutexOwner' = [mutexOwner EXCEPT !["parametersMutex"] = c]
    /\ clientPc' = [clientPc EXCEPT ![c] = "writeScale"]
    /\ UNCHANGED <<clientOp, isApiInitialized, activeDeviceList, m_thread, devicePc, numScaffoldCalls>>
    /\ UNCHANGED notScaffoldVars

\* (*matching)->positionScale = scale; the inner lock_guard goes out of scope
writeScale(c) ==
    /\ clientPc[c] = "writeScale"
    /\ mutexOwner' = [mutexOwner EXCEPT !["parametersMutex"] = "free"]
    /\ clientPc' = [clientPc EXCEPT ![c] = "unlockState"]
    /\ UNCHANGED <<clientOp, isApiInitialized, activeDeviceList, m_thread, devicePc, numScaffoldCalls>>
    /\ UNCHANGED notScaffoldVars

\* The lock_guard on m_state->mutex goes out of scope; the call returns
unlockStateMutex(c) ==
    /\ clientPc[c] = "unlockState"
    /\ mutexOwner' = [mutexOwner EXCEPT !["stateMutex"] = "free"]
    /\ clientPc' = [clientPc EXCEPT ![c] = "idle"]
    /\ clientOp' = [clientOp EXCEPT ![c] = "none"]
    /\ UNCHANGED <<isApiInitialized, activeDeviceList, m_thread, devicePc, numScaffoldCalls>>
    /\ UNCHANGED notScaffoldVars

updateDeviceMutex_State == "stateMutex"

\* updateDevice, line 264: boost::lock_guard<boost::mutex> lock(info->m_parametersMutex)
updateDeviceMutex == "parametersMutex"

\* The device thread's loop reads the stop request between two frames
deviceCheckStop ==
    /\ devicePc = "checkStop"
    /\ IF m_thread = "stopRequested"
       THEN m_thread' = "finished" /\ devicePc' = "ended"
       ELSE devicePc' = "frame" /\ UNCHANGED m_thread
    /\ UNCHANGED <<mutexOwner, clientPc, clientOp, isApiInitialized, activeDeviceList, numScaffoldCalls>>
    /\ UNCHANGED notScaffoldVars

\* runInputFrame -> updateDevice: the lock is taken
deviceLock ==
    /\ devicePc = "frame"
    /\ mutexOwner[updateDeviceMutex] = "free"
    /\ mutexOwner' = [mutexOwner EXCEPT ![updateDeviceMutex] = DeviceThread]
    /\ devicePc' = "updating"
    /\ UNCHANGED <<clientPc, clientOp, isApiInitialized, activeDeviceList, m_thread, numScaffoldCalls>>
    /\ UNCHANGED notScaffoldVars

\* updateDevice reads the pose, scales it and returns; pushInput()
deviceUpdate ==
    /\ devicePc = "updating"
    /\ mutexOwner' = [mutexOwner EXCEPT ![updateDeviceMutex] = "free"]
    /\ devicePc' = "checkStop"
    /\ UNCHANGED <<clientPc, clientOp, isApiInitialized, activeDeviceList, m_thread, numScaffoldCalls>>
    /\ UNCHANGED notScaffoldVars

clientCalls == \E c \in Clients, op \in ScaffoldOps : callScaffold(c, op)
clientLocksState == \E c \in Clients : lockStateMutex(c)
clientRegisters == \E c \in Clients, sdkRuns \in BOOLEAN : registerDevice(c, sdkRuns)
clientUnregisters == \E c \in Clients : unregisterDevice(c)
clientJoins == \E c \in Clients : joinDeviceThread(c)
clientFinds == \E c \in Clients : findDevice(c)
clientLocksParameters == \E c \in Clients : lockParametersMutex(c)
clientWritesScale == \E c \in Clients : writeScale(c)
clientUnlocksState == \E c \in Clients : unlockStateMutex(c)

NextScaffold ==
    \/ clientCalls
    \/ clientLocksState
    \/ clientRegisters
    \/ clientUnregisters
    \/ clientJoins
    \/ clientFinds
    \/ clientLocksParameters
    \/ clientWritesScale
    \/ clientUnlocksState
    \/ deviceCheckStop
    \/ deviceLock
    \/ deviceUpdate

InitSharedScaffold == InitScaffold /\ BodyIdle /\ AsmIdle /\ FemIdle /\ MathIdle /\ OdeIdle /\ ComponentIdle /\ ContactIdle /\ ParticleIdle /\ KeyboardIdle

SpecScaffold == InitSharedScaffold /\ [][NextScaffold]_vars

\* The thread a thread is waiting for, "nobody" when it can take its next step
waitsFor(t) ==
    IF t = DeviceThread
    THEN IF devicePc = "frame" /\ mutexOwner[updateDeviceMutex] # "free" THEN mutexOwner[updateDeviceMutex] ELSE "nobody"
    ELSE IF clientPc[t] = "lockState" /\ mutexOwner["stateMutex"] # "free" THEN mutexOwner["stateMutex"]
    ELSE IF clientPc[t] = "lockParameters" /\ mutexOwner["parametersMutex"] # "free" THEN mutexOwner["parametersMutex"]
    ELSE IF clientPc[t] = "joinThread" /\ m_thread # "finished" THEN DeviceThread
    ELSE "nobody"

ScaffoldThreads == Clients \cup {DeviceThread}

\* t waits, directly or through other waiting threads, for itself
InWaitCycle(t) ==
    \E u \in ScaffoldThreads : \E v \in ScaffoldThreads :
        /\ waitsFor(t) = u
        /\ \/ u = t
           \/ waitsFor(u) = t
           \/ waitsFor(u) = v /\ waitsFor(v) = t

\* C30: no deadlock is reachable: no thread waits in a cycle; the parameters
\* mutex is held either alone (by the device thread, which never holds or
\* waits for the state mutex) or by a client that already holds the state
\* mutex; a client that waits in thread->stop() with the state mutex held
\* waits for a device thread that is not waiting for any client
C30_NoDeadlock ==
    /\ \A t \in ScaffoldThreads : ~InWaitCycle(t)
    /\ \A c \in Clients : mutexOwner["parametersMutex"] = c => mutexOwner["stateMutex"] = c
    /\ mutexOwner["stateMutex"] # DeviceThread
    /\ waitsFor(DeviceThread) # "nobody" => waitsFor(DeviceThread) = mutexOwner["parametersMutex"]
    /\ \A c \in Clients : clientPc[c] = "joinThread" =>
            /\ mutexOwner["stateMutex"] = c
            /\ waitsFor(DeviceThread) \notin Clients

\* client1 waits in thread->stop() with the state mutex held, client2 waits
\* for the state mutex, the device thread is inside updateDevice
C30_Witness ==
    /\ clientPc["client1"] = "joinThread"
    /\ mutexOwner["stateMutex"] = "client1"
    /\ clientPc["client2"] = "lockState"
    /\ clientOp["client2"] = "setPositionScale"
    /\ m_thread = "stopRequested"
    /\ devicePc = "updating"
    /\ mutexOwner["parametersMutex"] = DeviceThread

====
